---- MODULE Spec2Model ----
(***************************************************************************)
(* Scheduling and settlement engine of fin2couple-api: installment and     *)
(* recurring-occurrence schedule entries, their pay/skip state machine,    *)
(* the 30-day overdue gate, the installment amount split and the Prisma    *)
(* entry store the use cases and controllers write to.                     *)
(*                                                                         *)
(* Time is counted in ticks of the local clock, TicksPerDay ticks to a     *)
(* calendar day; day 0 is 1 January of EpochYear.  Money is counted in     *)
(* cents.  Identifiers (UUIDs in the code) are fresh naturals.             *)
(***************************************************************************)
EXTENDS Integers, Sequences, FiniteSets, TLC

VARIABLES
    now,            \* the system clock (what new Date() returns), in ticks
    templates,      \* template stores: id -> template row
    entries,        \* entry stores (installment / recurringOccurrence): id -> row
    transactions,   \* ledger store: id -> transaction row
    nextId,         \* next fresh identifier (crypto.randomUUID)
    pc,             \* per request: position in its handler
    loc,            \* per request: the handler's local variables
    started,        \* number of requests received so far
    probe           \* input/output cell of the pure-function specifications

vars == <<now, templates, entries, transactions, nextId, pc, loc, started, probe>>

-----------------------------------------------------------------------------
(* Bounds of the model and program constants *)

TicksPerDay == 2
OverdueDays == 30
MinInstallments == 2
MaxInstallments == 120
EpochYear == 2024
NullId == 0
MaxRequests == 3
MaxTemplates == 1

PENDING == "PENDING"
PAID == "PAID"
SKIPPED == "SKIPPED"
OccurrenceStatus == {PENDING, PAID, SKIPPED}

INSTALLMENT == "installment"
OCCURRENCE == "occurrence"
Kinds == {INSTALLMENT, OCCURRENCE}

-----------------------------------------------------------------------------
(* Calendar: what the host Date object does for the code *)

IsLeap(y) == (y % 4 = 0 /\ y % 100 # 0) \/ y % 400 = 0

DaysInMonth(y, m) ==
    IF m = 2 THEN (IF IsLeap(y) THEN 29 ELSE 28)
    ELSE IF m \in {4, 6, 9, 11} THEN 30 ELSE 31

DaysInYear(y) == IF IsLeap(y) THEN 366 ELSE 365

RECURSIVE DaysBeforeYear(_)
DaysBeforeYear(y) ==
    IF y <= EpochYear THEN 0 ELSE DaysBeforeYear(y - 1) + DaysInYear(y - 1)

RECURSIVE DaysBeforeMonth(_, _)
DaysBeforeMonth(y, m) ==
    IF m <= 1 THEN 0 ELSE DaysBeforeMonth(y, m - 1) + DaysInMonth(y, m - 1)

\* Day number of year y, month m (1..12), day-of-month d; d may exceed the
\* month's length, and then the date rolls over into the following month(s),
\* as Date.setMonth / setDate do.
DayNumber(y, m, d) == DaysBeforeYear(y) + DaysBeforeMonth(y, m) + (d - 1)

RECURSIVE YearOfDay(_, _)
YearOfDay(day, y) ==
    IF day < DaysBeforeYear(y + 1) THEN y ELSE YearOfDay(day, y + 1)

RECURSIVE MonthOfDay(_, _, _)
MonthOfDay(day, y, m) ==
    IF m = 12 \/ day < DayNumber(y, m + 1, 1) THEN m ELSE MonthOfDay(day, y, m + 1)

getFullYear(t) == YearOfDay(t \div TicksPerDay, EpochYear)
getMonth(t) == MonthOfDay(t \div TicksPerDay, getFullYear(t), 1)
getDate(t) == (t \div TicksPerDay) - DayNumber(getFullYear(t), getMonth(t), 1) + 1
TimeOfDay(t) == t % TicksPerDay

\* d.setHours(0, 0, 0, 0)
setHours0(t) == t - TimeOfDay(t)

\* d.setDate(d.getDate() + k): k calendar days later, same time of day
setDate(t, k) == t + k * TicksPerDay

\* d.setMonth(d.getMonth() + k): same day-of-month and time of day, k months
\* later, rolling over when the target month is shorter
setMonth(t, k) ==
    LET y  == getFullYear(t)
        m0 == (getMonth(t) - 1) + k
        y2 == y + (m0 \div 12)
        m2 == (m0 % 12) + 1
    IN  DayNumber(y2, m2, getDate(t)) * TicksPerDay + TimeOfDay(t)

-----------------------------------------------------------------------------
(* Installment / RecurringOccurrence entity: the shared state machine *)

isPending(e) == e.status = PENDING
isPaid(e) == e.status = PAID
isSkipped(e) == e.status = SKIPPED

\* The plausible slip: "today" and the due date are not moved to midnight.
isOverdueNotNormalized(e) ==
    LET today == now
        dueDate == setHours0(e.due_date)
        thirtyDaysAgo == setDate(today, -OverdueDays)
    IN  dueDate < thirtyDaysAgo

isOverdue(e) ==
    LET today == setHours0(now)
        dueDate == setHours0(e.due_date)
        thirtyDaysAgo == setDate(today, -OverdueDays)
    IN  dueDate < thirtyDaysAgo

\* The plausible slip: the overdue gate left out of the eligibility test.
canBePaidIgnoringOverdue(e) == isPending(e)

canBePaid(e) == isPending(e) /\ ~isOverdue(e)
canBeSkipped(e) == isPending(e)

isDue(e) == setHours0(e.due_date) <= setHours0(now) /\ isPending(e)

\* The plausible slip: the transaction id tested before the status.
markAsPaidErrorIdFirst(e, transactionId) ==
    IF transactionId = NullId THEN "Transaction ID is required to mark as paid"
    ELSE IF ~isPending(e) THEN "Only pending entries can be marked as paid"
    ELSE "ok"

\* entity.markAsPaid(transactionId): the outcome, and the entity afterwards
markAsPaidError(e, transactionId) ==
    IF ~isPending(e) THEN "Only pending entries can be marked as paid"
    ELSE IF transactionId = NullId THEN "Transaction ID is required to mark as paid"
    ELSE "ok"

markAsPaid(e, transactionId) ==
    IF markAsPaidError(e, transactionId) = "ok"
    THEN [e EXCEPT !.status = PAID, !.transaction_id = transactionId]
    ELSE e

markAsSkippedError(e) ==
    IF ~isPending(e) THEN "Only pending entries can be skipped" ELSE "ok"

markAsSkipped(e) ==
    IF markAsSkippedError(e) = "ok" THEN [e EXCEPT !.status = SKIPPED] ELSE e

-----------------------------------------------------------------------------
(* InstallmentTemplate and the installment amount split (amounts in cents) *)

\* Math.round(x * 100) for the amount x = num/den cents: the nearest cent.
\* Exactly halfway between two cents the binary floating-point product may
\* land on either side, so that case yields either neighbour (tieUp).
roundCents(num, den, tieUp) ==
    LET q == num \div den
        r == num % den
    IN  IF 2 * r > den THEN q + 1
        ELSE IF 2 * r < den THEN q
        ELSE IF tieUp THEN q + 1 ELSE q

\* template.getInstallmentAmount() = total_amount / total_installments, kept
\* unrounded: the fraction num/den
getInstallmentAmount(t) == [num |-> t.total_amount, den |-> t.total_installments]

calculateDueDateError(t, installmentNumber) ==
    installmentNumber < 1 \/ installmentNumber > t.total_installments

\* The plausible slip: the "- 1" left out of the month offset.
calculateDueDateOffByOne(t, installmentNumber) ==
    setMonth(t.first_due_date, installmentNumber)

calculateDueDate(t, installmentNumber) ==
    setMonth(t.first_due_date, installmentNumber - 1)

\* amount of installment i as generateInstallments computes it:
\*   amount = i === N ? total - installmentAmount * (N - 1) : installmentAmount
\*   Math.round(amount * 100) / 100
installmentAmountCents(t, i, tieUp, tieUpLast) ==
    LET installmentAmount == getInstallmentAmount(t)
        N == t.total_installments
    IN  IF i = N
        THEN roundCents(t.total_amount * installmentAmount.den
                          - installmentAmount.num * (N - 1),
                        installmentAmount.den, tieUpLast)
        ELSE roundCents(installmentAmount.num, installmentAmount.den, tieUp)

\* The plausible slip: the loop stops one installment short (i < N).
generateInstallmentsShort(t, templateId, firstId, tieUp, tieUpLast) ==
    [i \in 1..(t.total_installments - 1) |->
        [id |-> firstId + (i - 1),
         kind |-> INSTALLMENT,
         template_id |-> templateId,
         installment_number |-> i,
         amount |-> installmentAmountCents(t, i, tieUp, tieUpLast),
         due_date |-> calculateDueDate(t, i),
         status |-> PENDING,
         transaction_id |-> NullId,
         created_at |-> now]]

\* generateInstallments(template): the N Installment.create() rows, with the
\* identifiers firstId, firstId + 1, ...
generateInstallments(t, templateId, firstId, tieUp, tieUpLast) ==
    [i \in 1..t.total_installments |->
        [id |-> firstId + (i - 1),
         kind |-> INSTALLMENT,
         template_id |-> templateId,
         installment_number |-> i,
         amount |-> installmentAmountCents(t, i, tieUp, tieUpLast),
         due_date |-> calculateDueDate(t, i),
         status |-> PENDING,
         transaction_id |-> NullId,
         created_at |-> now]]

\* Installment.validate: amount must be positive (zod .positive())
installmentsValid(batch) == \A i \in DOMAIN batch : batch[i].amount > 0

RECURSIVE SumAmounts(_, _)
SumAmounts(batch, n) == IF n = 0 THEN 0 ELSE SumAmounts(batch, n - 1) + batch[n].amount

-----------------------------------------------------------------------------
(* Recurrence arithmetic of the occurrence generators *)

DAILY == "DAILY"
WEEKLY == "WEEKLY"
MONTHLY == "MONTHLY"
YEARLY == "YEARLY"

\* d.setFullYear(d.getFullYear() + k)
setFullYear(t, k) ==
    DayNumber(getFullYear(t) + k, getMonth(t), getDate(t)) * TicksPerDay + TimeOfDay(t)

\* The plausible slip: the week step written interval / 7, which truncates to
\* no step at all for a small interval.
calculateNextDateWeekDivided(currentDate, frequency, interval) ==
    CASE frequency = DAILY   -> setDate(currentDate, interval)
      [] frequency = WEEKLY  -> setDate(currentDate, interval \div 7)
      [] frequency = MONTHLY -> setMonth(currentDate, interval)
      [] frequency = YEARLY  -> setFullYear(currentDate, interval)

calculateNextDate(currentDate, frequency, interval) ==
    CASE frequency = DAILY   -> setDate(currentDate, interval)
      [] frequency = WEEKLY  -> setDate(currentDate, interval * 7)
      [] frequency = MONTHLY -> setMonth(currentDate, interval)
      [] frequency = YEARLY  -> setFullYear(currentDate, interval)

\* calculateEndDate(template, monthsAhead): the generation horizon.  An absent
\* end_date is the empty sequence, a present one the one-element sequence.
calculateEndDate(t, monthsAhead) ==
    LET endDate == setMonth(now, monthsAhead)
    IN  IF t.end_date # <<>> /\ t.end_date[1] < endDate THEN t.end_date[1] ELSE endDate

\* date.toISOString().split('T')[0]: the calendar date of an instant
dateKey(t) == t \div TicksPerDay

\* The plausible slip: the loop without the test against the existing dates.
RECURSIVE generationLoopNoExisting(_, _, _, _)
generationLoopNoExisting(t, currentDate, endDate, existingDates) ==
    IF ~(currentDate <= endDate) THEN <<>>
    ELSE LET nextDate == calculateNextDate(currentDate, t.frequency, t.interval)
         IN  IF t.end_date # <<>> /\ nextDate > t.end_date[1]
             THEN <<currentDate>>
             ELSE <<currentDate>>
                    \o generationLoopNoExisting(t, nextDate, endDate, existingDates)

\* The plausible slip: the loop test written currentDate < endDate.
RECURSIVE generationLoopStrict(_, _, _, _)
generationLoopStrict(t, currentDate, endDate, existingDates) ==
    IF ~(currentDate < endDate) THEN <<>>
    ELSE LET emitted == IF dateKey(currentDate) \notin existingDates
                        THEN <<currentDate>> ELSE <<>>
             nextDate == calculateNextDate(currentDate, t.frequency, t.interval)
         IN  IF t.end_date # <<>> /\ nextDate > t.end_date[1]
             THEN emitted
             ELSE emitted \o generationLoopStrict(t, nextDate, endDate, existingDates)

\* The while loop of both generators: the due dates it emits, from
\* currentDate on.  existingDates is the set of date keys not to emit again.
RECURSIVE generationLoop(_, _, _, _)
generationLoop(t, currentDate, endDate, existingDates) ==
    IF ~(currentDate <= endDate) THEN <<>>
    ELSE LET emitted == IF dateKey(currentDate) \notin existingDates
                        THEN <<currentDate>> ELSE <<>>
             nextDate == calculateNextDate(currentDate, t.frequency, t.interval)
         IN  IF t.end_date # <<>> /\ nextDate > t.end_date[1]
             THEN emitted
             ELSE emitted \o generationLoop(t, nextDate, endDate, existingDates)

\* RecurringOccurrence.create() rows for a sequence of due dates
occurrenceRows(dates, templateId, firstId) ==
    [i \in 1..Len(dates) |->
        [id |-> firstId + (i - 1),
         kind |-> OCCURRENCE,
         template_id |-> templateId,
         installment_number |-> 0,
         amount |-> 0,
         due_date |-> dates[i],
         status |-> PENDING,
         transaction_id |-> NullId,
         created_at |-> now]]

-----------------------------------------------------------------------------
(* Requests and stores *)

\* Two HTTP requests can be in flight at a time.
Requests == {"r1", "r2"}

\* null (findById found nothing)
NoEntry ==
    [id |-> NullId, kind |-> "none", template_id |-> NullId, installment_number |-> 0,
     amount |-> 0, due_date |-> 0, status |-> PENDING, transaction_id |-> NullId,
     created_at |-> 0]

NoTemplate == [kind |-> "none"]

\* The locals of a request that is in no handler
NoLoc ==
    [op |-> "none", kind |-> "none", entry |-> NoEntry, template_id |-> NullId,
     template |-> NoTemplate, transaction_id |-> NullId, transaction_date |-> <<>>,
     months_ahead |-> 0, existing |-> {}, batch |-> <<>>, returned |-> {},
     pay_first |-> FALSE, outcome |-> "none"]

\* prisma.<entry table>.findUnique({ where: { id } })
findById(kind, id) ==
    IF id \in DOMAIN entries /\ entries[id].kind = kind THEN entries[id] ELSE NoEntry

\* templateRepository.findById(id)
findTemplateById(kind, id) ==
    IF id \in DOMAIN templates /\ templates[id].kind = kind THEN templates[id] ELSE NoTemplate

\* prisma.<entry table>.findMany({ where: { template_id } })
findByTemplateId(kind, templateId) ==
    {id \in DOMAIN entries : entries[id].kind = kind /\ entries[id].template_id = templateId}

\* A slip in the store's skip: the row is written back as PENDING.
repoMarkAsSkippedPending(id) ==
    [entries EXCEPT ![id] = [@ EXCEPT !.status = PENDING]]

\* prisma.<entry table>.update({ where: { id }, data: { status: SKIPPED } })
repoMarkAsSkipped(id) ==
    [entries EXCEPT ![id] = [@ EXCEPT !.status = SKIPPED]]

\* The plausible slip: the update sets the status and forgets transaction_id.
repoMarkAsPaidStatusOnly(id, transactionId) ==
    [entries EXCEPT ![id] = [@ EXCEPT !.status = PAID]]

\* prisma.<entry table>.update({ where: { id },
\*                               data: { status: PAID, transaction_id } })
repoMarkAsPaid(id, transactionId) ==
    [entries EXCEPT ![id] = [@ EXCEPT !.status = PAID, !.transaction_id = transactionId]]

\* findMany({ where: { status: PENDING, due_date: { lt: thirtyDaysAgo } } })
\* with thirtyDaysAgo = currentDate.setDate(currentDate.getDate() - 30)
findOverdue(kind, currentDate) ==
    LET thirtyDaysAgo == setDate(currentDate, -OverdueDays)
    IN  {id \in DOMAIN entries :
            /\ entries[id].kind = kind
            /\ entries[id].status = PENDING
            /\ entries[id].due_date < thirtyDaysAgo}

findOverdueInstallments(currentDate) == findOverdue(INSTALLMENT, currentDate)

findOverdueOccurrences(currentDate) == findOverdue(OCCURRENCE, currentDate)

\* The plausible change: createMany({ data, skipDuplicates: true }) on a table
\* with a unique (template_id, due_date).
insertManySkipDuplicates(batch) ==
    LET fresh == {i \in DOMAIN batch :
                    ~\E id \in DOMAIN entries :
                        /\ entries[id].template_id = batch[i].template_id
                        /\ entries[id].due_date = batch[i].due_date}
    IN  [id \in DOMAIN entries \cup {batch[i].id : i \in fresh} |->
            IF id \in DOMAIN entries THEN entries[id]
            ELSE LET i == CHOOSE j \in DOMAIN batch : batch[j].id = id
                 IN  [batch[i] EXCEPT !.created_at = now]]

\* prisma.<entry table>.createMany({ data }): created_at is the store's default
insertMany(batch) ==
    [id \in DOMAIN entries \cup {batch[i].id : i \in DOMAIN batch} |->
        IF id \in DOMAIN entries THEN entries[id]
        ELSE LET i == CHOOSE j \in DOMAIN batch : batch[j].id = id
             IN  [batch[i] EXCEPT !.created_at = now]]

\* The read-back of createMany: findMany({ where: { template_id in ... },
\* orderBy: { created_at: 'desc' }, take: n }).  Rows with equal created_at
\* come in an order the store chooses, so any n newest rows may be returned.
isReadBack(kind, templateId, n, S) ==
    /\ S \subseteq findByTemplateId(kind, templateId)
    /\ Cardinality(S) = (IF Cardinality(findByTemplateId(kind, templateId)) < n
                         THEN Cardinality(findByTemplateId(kind, templateId)) ELSE n)
    /\ \A x \in S : \A y \in findByTemplateId(kind, templateId) \ S :
          entries[x].created_at >= entries[y].created_at

\* the rows that may come first in such a read-back (none, written NullId,
\* when it is empty)
mayBeFirst(S, x) ==
    IF S = {} THEN x = NullId
    ELSE x \in S /\ \A y \in S : entries[x].created_at >= entries[y].created_at

\* transactionRepository.create(transaction): the new ledger row
\* (entry_id is bookkeeping of the model: the entry the row was created for)
insertTransaction(id, row) ==
    [i \in DOMAIN transactions \cup {id} |->
        IF i = id THEN row ELSE transactions[i]]

\* The plausible slip: the template id written to both references.
installmentTransactionBothReferences(id, template, templateId, installment, transactionDate) ==
    [id |-> id, type |-> "EXPENSE", amount |-> installment.amount,
     transaction_date |-> transactionDate,
     installment_group_id |-> templateId,
     installment_number |-> installment.installment_number,
     total_installments |-> template.total_installments,
     recurring_template_id |-> templateId,
     couple_id |-> template.couple_id, paid_by_id |-> template.paid_by_id,
     account_id |-> template.account_id, visibility |-> template.visibility,
     is_couple_expense |-> template.is_couple_expense,
     is_free_spending |-> template.is_free_spending,
     entry_id |-> installment.id]

\* createTransactionFromInstallment / createFirstTransaction (installment)
installmentTransaction(id, template, templateId, installment, transactionDate) ==
    [id |-> id, type |-> "EXPENSE", amount |-> installment.amount,
     transaction_date |-> transactionDate,
     installment_group_id |-> templateId,
     installment_number |-> installment.installment_number,
     total_installments |-> template.total_installments,
     recurring_template_id |-> NullId,
     couple_id |-> template.couple_id, paid_by_id |-> template.paid_by_id,
     account_id |-> template.account_id, visibility |-> template.visibility,
     is_couple_expense |-> template.is_couple_expense,
     is_free_spending |-> template.is_free_spending,
     entry_id |-> installment.id]

\* The plausible slip: the two flags of the template taken for each other.
recurringTransactionFlagsSwapped(id, template, templateId, occurrence, transactionDate) ==
    [id |-> id, type |-> template.type, amount |-> template.amount,
     transaction_date |-> transactionDate,
     installment_group_id |-> NullId,
     installment_number |-> 0,
     total_installments |-> 0,
     recurring_template_id |-> templateId,
     couple_id |-> template.couple_id, paid_by_id |-> template.paid_by_id,
     account_id |-> template.account_id, visibility |-> template.visibility,
     is_couple_expense |-> template.is_free_spending,
     is_free_spending |-> template.is_couple_expense,
     entry_id |-> occurrence.id]

\* createTransactionFromTemplate / createFirstTransaction (recurring)
recurringTransaction(id, template, templateId, occurrence, transactionDate) ==
    [id |-> id, type |-> template.type, amount |-> template.amount,
     transaction_date |-> transactionDate,
     installment_group_id |-> NullId,
     installment_number |-> 0,
     total_installments |-> 0,
     recurring_template_id |-> templateId,
     couple_id |-> template.couple_id, paid_by_id |-> template.paid_by_id,
     account_id |-> template.account_id, visibility |-> template.visibility,
     is_couple_expense |-> template.is_couple_expense,
     is_free_spending |-> template.is_free_spending,
     entry_id |-> occurrence.id]

transactionFor(id, kind, template, templateId, entry, transactionDate) ==
    IF kind = INSTALLMENT
    THEN installmentTransaction(id, template, templateId, entry, transactionDate)
    ELSE recurringTransaction(id, template, templateId, entry, transactionDate)

\* The handler of request r ends (returns or throws) with this outcome; what
\* is kept of it is the response: the operation, the entry it names, the
\* transaction created for it, the entries it returns and the outcome.
Finish(r, op, kind, entry, transactionId, returned, outcome) ==
    /\ pc' = [pc EXCEPT ![r] = "done"]
    /\ loc' = [loc EXCEPT ![r] = [NoLoc EXCEPT !.op = op, !.kind = kind,
                                              !.entry = [NoEntry EXCEPT !.id = entry.id],
                                              !.transaction_id = transactionId,
                                              !.returned = returned,
                                              !.outcome = outcome]]

-----------------------------------------------------------------------------
(* PayInstallmentUseCase.execute / PayRecurringOccurrenceUseCase.execute *)

\* The plausible slip: the overdue test made before the status tests.
payRefusalOverdueFirst(e) ==
    IF isOverdue(e) THEN "overdue"
    ELSE IF isPaid(e) THEN "already_paid"
    ELSE IF isSkipped(e) THEN "skipped"
    ELSE "cannot_be_paid"

\* why an entry that cannot be paid is refused
payRefusal(e) ==
    IF isPaid(e) THEN "already_paid"
    ELSE IF isSkipped(e) THEN "skipped"
    ELSE IF isOverdue(e) THEN "overdue"
    ELSE "cannot_be_paid"

\* The plausible slip: an entry refused as overdue is written off as SKIPPED
\* before the error is thrown.
PayFindEntrySkipsOverdue(r, kind, id, transactionDate) ==
    /\ pc[r] = "idle"
    /\ started < MaxRequests
    /\ started' = started + 1
    /\ LET e == findById(kind, id)
       IN  IF e = NoEntry
           THEN /\ Finish(r, "pay", kind, NoEntry, NullId, {}, "not_found")
                /\ entries' = entries
           ELSE IF ~canBePaid(e)
           THEN /\ Finish(r, "pay", kind, e, NullId, {}, payRefusal(e))
                /\ entries' = IF payRefusal(e) = "overdue"
                              THEN repoMarkAsSkipped(id) ELSE entries
           ELSE /\ pc' = [pc EXCEPT ![r] = "pay_findTemplate"]
                /\ loc' = [loc EXCEPT ![r] =
                             [NoLoc EXCEPT !.op = "pay", !.kind = kind, !.entry = e,
                                           !.template_id = e.template_id,
                                           !.transaction_date = transactionDate]]
                /\ entries' = entries
    /\ UNCHANGED <<now, templates, transactions, nextId, probe>>

\* findById, then the canBePaid() gate
PayFindEntry(r, kind, id, transactionDate) ==
    /\ pc[r] = "idle"
    /\ started < MaxRequests
    /\ started' = started + 1
    /\ LET e == findById(kind, id)
       IN  IF e = NoEntry
           THEN Finish(r, "pay", kind, NoEntry, NullId, {}, "not_found")
           ELSE IF ~canBePaid(e)
           THEN Finish(r, "pay", kind, e, NullId, {}, payRefusal(e))
           ELSE /\ pc' = [pc EXCEPT ![r] = "pay_findTemplate"]
                /\ loc' = [loc EXCEPT ![r] =
                             [NoLoc EXCEPT !.op = "pay", !.kind = kind, !.entry = e,
                                           !.template_id = e.template_id,
                                           !.transaction_date = transactionDate]]
    /\ UNCHANGED <<now, templates, entries, transactions, nextId, probe>>

\* templateRepository.findById(entry.template_id)
PayFindTemplate(r) ==
    /\ pc[r] = "pay_findTemplate"
    /\ LET t == findTemplateById(loc[r].kind, loc[r].template_id)
       IN  IF t = NoTemplate
           THEN Finish(r, "pay", loc[r].kind, loc[r].entry, NullId, {}, "template_not_found")
           ELSE /\ pc' = [pc EXCEPT ![r] = "pay_createTransaction"]
                /\ loc' = [loc EXCEPT ![r].template = t]
    /\ UNCHANGED <<now, templates, entries, transactions, nextId, started, probe>>

\* transactionRepository.create(...), then entity.markAsPaid(transaction.id)
\* on the copy read by findById
PayCreateTransaction(r) ==
    /\ pc[r] = "pay_createTransaction"
    /\ LET e == loc[r].entry
           transactionDate == IF loc[r].transaction_date # <<>>
                              THEN loc[r].transaction_date[1] ELSE e.due_date
           row == transactionFor(nextId, loc[r].kind, loc[r].template,
                                 loc[r].template_id, e, transactionDate)
       IN  /\ transactions' = insertTransaction(nextId, row)
           /\ nextId' = nextId + 1
           /\ IF markAsPaidError(e, nextId) = "ok"
              THEN /\ pc' = [pc EXCEPT ![r] = "pay_markAsPaid"]
                   /\ loc' = [loc EXCEPT ![r].entry = markAsPaid(e, nextId),
                                         ![r].transaction_id = nextId]
              ELSE Finish(r, "pay", loc[r].kind, e, nextId, {}, markAsPaidError(e, nextId))
    /\ UNCHANGED <<now, templates, entries, started, probe>>

\* repository.markAsPaid(entry.id, transaction.id), then return; the update
\* is a call to the database, which may reject (updateFails), and execute
\* lets the rejection through
PayMarkAsPaid(r, updateFails) ==
    /\ pc[r] = "pay_markAsPaid"
    /\ IF ~updateFails /\ loc[r].entry.id \in DOMAIN entries
       THEN /\ entries' = repoMarkAsPaid(loc[r].entry.id, loc[r].transaction_id)
            /\ Finish(r, "pay", loc[r].kind, loc[r].entry, loc[r].transaction_id, {}, "ok")
       ELSE /\ entries' = entries
            /\ Finish(r, "pay", loc[r].kind, loc[r].entry, loc[r].transaction_id, {},
                      "store_error")
    /\ UNCHANGED <<now, templates, transactions, nextId, started, probe>>

-----------------------------------------------------------------------------
(* InstallmentController.skipInstallment / RecurringOccurrenceController.skipOccurrence *)

\* The plausible slip: the update selects by template_id instead of id, and
\* every entry of the template is skipped.
SkipWholeTemplate(r, kind, id) ==
    /\ pc[r] = "idle"
    /\ started < MaxRequests
    /\ started' = started + 1
    /\ IF findById(kind, id) # NoEntry
       THEN /\ entries' = [x \in DOMAIN entries |->
                              IF entries[x].template_id = entries[id].template_id
                              THEN [entries[x] EXCEPT !.status = SKIPPED]
                              ELSE entries[x]]
            /\ Finish(r, "skip", kind, [NoEntry EXCEPT !.id = id], NullId, {}, "ok")
       ELSE /\ entries' = entries
            /\ Finish(r, "skip", kind, [NoEntry EXCEPT !.id = id], NullId, {}, "store_error")
    /\ UNCHANGED <<now, templates, transactions, nextId, probe>>

Skip(r, kind, id) ==
    /\ pc[r] = "idle"
    /\ started < MaxRequests
    /\ started' = started + 1
    /\ IF findById(kind, id) # NoEntry
       THEN /\ entries' = repoMarkAsSkipped(id)
            /\ Finish(r, "skip", kind, [NoEntry EXCEPT !.id = id], NullId, {}, "ok")
       ELSE /\ entries' = entries
            /\ Finish(r, "skip", kind, [NoEntry EXCEPT !.id = id], NullId, {}, "store_error")
    /\ UNCHANGED <<now, templates, transactions, nextId, probe>>

\* The response has been sent: the request slot is free again.
Return(r) ==
    /\ pc[r] = "done"
    /\ pc' = [pc EXCEPT ![r] = "idle"]
    /\ loc' = [loc EXCEPT ![r] = NoLoc]
    /\ UNCHANGED <<now, templates, entries, transactions, nextId, started, probe>>

-----------------------------------------------------------------------------
(* Inputs of the requests *)

\* the instant the model starts at: 1 March of EpochYear, 00:00
Now0 == DayNumber(EpochYear, 3, 1) * TicksPerDay

\* the instants the clock is observed at
Instants ==
    {Now0, setDate(Now0, OverdueDays), setDate(Now0, OverdueDays + 1)}

\* a plan of 100.00 in 2 installments, with and without payment of the first;
\* one installment only, 121 installments, a total of 0 (all refused); 0.01
\* in 3 installments (each share rounds to 0.00)
CreateInstallmentInputs ==
    {[total_amount |-> 10000, total_installments |-> 2,
      first_installment_date |-> Now0 + 1,
      pay_first_installment |-> f, account_exists |-> TRUE,
      couple_id |-> "couple_1", paid_by_id |-> "user_a", account_id |-> "account_1",
      account_owner_id |-> "", visibility |-> "SHARED",
      is_couple_expense |-> TRUE, is_free_spending |-> FALSE] : f \in BOOLEAN}
    \cup
    {[total_amount |-> 10000, total_installments |-> 1,
      first_installment_date |-> Now0 + 1,
      pay_first_installment |-> FALSE, account_exists |-> TRUE,
      couple_id |-> "couple_1", paid_by_id |-> "user_a", account_id |-> "account_1",
      account_owner_id |-> "", visibility |-> "SHARED",
      is_couple_expense |-> TRUE, is_free_spending |-> FALSE],
     [total_amount |-> 1, total_installments |-> 3,
      first_installment_date |-> Now0 + 1,
      pay_first_installment |-> FALSE, account_exists |-> TRUE,
      couple_id |-> "couple_1", paid_by_id |-> "user_a", account_id |-> "account_1",
      account_owner_id |-> "", visibility |-> "SHARED",
      is_couple_expense |-> TRUE, is_free_spending |-> FALSE],
     [total_amount |-> 10000, total_installments |-> MaxInstallments + 1,
      first_installment_date |-> Now0 + 1,
      pay_first_installment |-> FALSE, account_exists |-> TRUE,
      couple_id |-> "couple_1", paid_by_id |-> "user_a", account_id |-> "account_1",
      account_owner_id |-> "", visibility |-> "SHARED",
      is_couple_expense |-> TRUE, is_free_spending |-> FALSE],
     [total_amount |-> 0, total_installments |-> 2,
      first_installment_date |-> Now0 + 1,
      pay_first_installment |-> FALSE, account_exists |-> TRUE,
      couple_id |-> "couple_1", paid_by_id |-> "user_a", account_id |-> "account_1",
      account_owner_id |-> "", visibility |-> "SHARED",
      is_couple_expense |-> TRUE, is_free_spending |-> FALSE]}

CreateRecurringInputs ==
    {[type |-> "EXPENSE", amount |-> 5000, frequency |-> MONTHLY, interval |-> 1,
      start_date |-> setDate(Now0, -(OverdueDays + 1)),
      end_date |-> <<setDate(Now0, -OverdueDays)>>,
      create_first_transaction |-> f, months_ahead |-> 1, account_exists |-> TRUE,
      couple_id |-> "couple_1", paid_by_id |-> "user_a", account_id |-> "account_1",
      account_owner_id |-> "", visibility |-> "SHARED",
      is_couple_expense |-> TRUE, is_free_spending |-> FALSE]
        : f \in BOOLEAN}
    \cup
    {[type |-> "INCOME", amount |-> 5000, frequency |-> MONTHLY, interval |-> 1,
      start_date |-> Now0 + 1, end_date |-> <<setMonth(Now0 + 1, 1)>>,
      create_first_transaction |-> f, months_ahead |-> 1, account_exists |-> TRUE,
      couple_id |-> "couple_1", paid_by_id |-> "user_b", account_id |-> "account_2",
      account_owner_id |-> "user_b", visibility |-> "",
      is_couple_expense |-> FALSE, is_free_spending |-> TRUE]
        : f \in BOOLEAN}
    \cup
    {[type |-> "EXPENSE", amount |-> 0, frequency |-> MONTHLY, interval |-> 1,
      start_date |-> Now0, end_date |-> <<>>,
      create_first_transaction |-> FALSE, months_ahead |-> 1, account_exists |-> TRUE,
      couple_id |-> "couple_1", paid_by_id |-> "user_a", account_id |-> "account_1",
      account_owner_id |-> "", visibility |-> "SHARED",
      is_couple_expense |-> TRUE, is_free_spending |-> FALSE]}

MonthsAheadInputs == {0, 1}

\* input.transaction_date of a pay request: absent, or a date of the caller's
TransactionDateInputs == {<<>>, <<Now0>>}

\* identifiers a request may name: those of stored rows, and one of no row
EntryIdInputs == DOMAIN entries \cup {NullId}
TemplateIdInputs == DOMAIN templates \cup {NullId}

TemplateBudgetLeft ==
    Cardinality(DOMAIN templates)
      + Cardinality({r \in Requests : pc[r] \in {"ci_createTemplate", "cr_createTemplate"}})
      < MaxTemplates

-----------------------------------------------------------------------------
(* CreateInstallmentTransactionUseCase.execute *)

\* The plausible slip: the lower limit on the count left out.
createInstallmentErrorNoMinimum(input) ==
    IF input.total_installments > MaxInstallments
        THEN "Maximum 120 installments allowed"
    ELSE IF input.total_amount <= 0
        THEN "Total amount must be positive"
    ELSE IF setHours0(input.first_installment_date) < setHours0(now)
        THEN "First installment date cannot be in the past"
    ELSE IF ~input.account_exists
        THEN "account_not_found"
    ELSE "ok"

\* validateInput(input), then accountRepository.findById
createInstallmentError(input) ==
    IF input.total_installments < MinInstallments
        THEN "Total installments must be at least 2"
    ELSE IF input.total_installments > MaxInstallments
        THEN "Maximum 120 installments allowed"
    ELSE IF input.total_amount <= 0
        THEN "Total amount must be positive"
    ELSE IF setHours0(input.first_installment_date) < setHours0(now)
        THEN "First installment date cannot be in the past"
    ELSE IF ~input.account_exists
        THEN "account_not_found"
    ELSE "ok"

\* input.visibility ?? (account.owner_id ? 'PRIVATE' : 'SHARED'); an absent
\* visibility and a null owner are the empty string
visibilityOf(input) ==
    IF input.visibility # "" THEN input.visibility
    ELSE IF input.account_owner_id # "" THEN "PRIVATE" ELSE "SHARED"

\* createTemplate(input, visibility): the InstallmentTemplate row
installmentTemplateRow(input) ==
    [kind |-> INSTALLMENT, total_amount |-> input.total_amount,
     total_installments |-> input.total_installments,
     first_due_date |-> input.first_installment_date, is_active |-> TRUE,
     couple_id |-> input.couple_id, paid_by_id |-> input.paid_by_id,
     account_id |-> input.account_id, visibility |-> visibilityOf(input),
     is_couple_expense |-> input.is_couple_expense,
     is_free_spending |-> input.is_free_spending]

CreateInstallmentBegin(r, input) ==
    /\ pc[r] = "idle"
    /\ started < MaxRequests
    /\ started' = started + 1
    /\ TemplateBudgetLeft
    /\ IF createInstallmentError(input) # "ok"
       THEN Finish(r, "create", INSTALLMENT, NoEntry, NullId, {}, createInstallmentError(input))
       ELSE /\ pc' = [pc EXCEPT ![r] = "ci_createTemplate"]
            /\ loc' = [loc EXCEPT ![r] =
                         [NoLoc EXCEPT !.op = "create", !.kind = INSTALLMENT,
                                       !.template = installmentTemplateRow(input),
                                       !.pay_first = input.pay_first_installment]]
    /\ UNCHANGED <<now, templates, entries, transactions, nextId, probe>>

\* templateRepository.create(template), then generateInstallments(createdTemplate)
CreateInstallmentTemplate(r, tieUp, tieUpLast) ==
    /\ pc[r] = "ci_createTemplate"
    /\ templates' = [i \in DOMAIN templates \cup {nextId} |->
                        IF i = nextId THEN loc[r].template ELSE templates[i]]
    /\ LET batch == generateInstallments(loc[r].template, nextId, nextId + 1,
                                         tieUp, tieUpLast)
       IN  IF installmentsValid(batch)
           THEN /\ pc' = [pc EXCEPT ![r] = "createMany_insert"]
                /\ loc' = [loc EXCEPT ![r].template_id = nextId, ![r].batch = batch]
                /\ nextId' = nextId + 1 + Len(batch)
           ELSE /\ Finish(r, "create", INSTALLMENT, NoEntry, NullId, {}, "Amount must be positive")
                /\ nextId' = nextId + 1
    /\ UNCHANGED <<now, entries, transactions, started, probe>>

-----------------------------------------------------------------------------
(* CreateRecurringTransactionUseCase.execute *)

createRecurringError(input) ==
    IF input.amount <= 0 THEN "Amount must be positive"
    ELSE IF input.interval < 1 THEN "Interval must be at least 1"
    ELSE IF input.end_date # <<>> /\ input.end_date[1] <= input.start_date
        THEN "End date must be after start date"
    ELSE IF ~input.account_exists THEN "account_not_found"
    ELSE "ok"

\* createTemplate(input, recurrenceConfig, visibility)
recurringTemplateRow(input) ==
    [kind |-> OCCURRENCE, type |-> input.type, amount |-> input.amount,
     frequency |-> input.frequency, interval |-> input.interval,
     start_date |-> input.start_date, end_date |-> input.end_date,
     next_occurrence |-> input.start_date, is_active |-> TRUE,
     couple_id |-> input.couple_id, paid_by_id |-> input.paid_by_id,
     account_id |-> input.account_id, visibility |-> visibilityOf(input),
     is_couple_expense |-> input.is_couple_expense,
     is_free_spending |-> input.is_free_spending]

\* input.months_ahead || 3
monthsAheadOrDefault(m) == IF m = 0 THEN 3 ELSE m

CreateRecurringBegin(r, input) ==
    /\ pc[r] = "idle"
    /\ started < MaxRequests
    /\ started' = started + 1
    /\ TemplateBudgetLeft
    /\ IF createRecurringError(input) # "ok"
       THEN Finish(r, "create", OCCURRENCE, NoEntry, NullId, {}, createRecurringError(input))
       ELSE /\ pc' = [pc EXCEPT ![r] = "cr_createTemplate"]
            /\ loc' = [loc EXCEPT ![r] =
                         [NoLoc EXCEPT !.op = "create", !.kind = OCCURRENCE,
                                       !.template = recurringTemplateRow(input),
                                       !.months_ahead = monthsAheadOrDefault(input.months_ahead),
                                       !.pay_first = input.create_first_transaction]]
    /\ UNCHANGED <<now, templates, entries, transactions, nextId, probe>>

\* generateOccurrences(template, monthsAhead) of the create use case: the loop
\* without the existing-dates check
generateOccurrences(t, monthsAhead) ==
    generationLoop(t, t.next_occurrence, calculateEndDate(t, monthsAhead), {})

\* templateRepository.create(template), then generateOccurrences up to createMany
CreateRecurringTemplate(r) ==
    /\ pc[r] = "cr_createTemplate"
    /\ templates' = [i \in DOMAIN templates \cup {nextId} |->
                        IF i = nextId THEN loc[r].template ELSE templates[i]]
    /\ LET dates == generateOccurrences(loc[r].template, loc[r].months_ahead)
           batch == occurrenceRows(dates, nextId, nextId + 1)
       IN  /\ nextId' = nextId + 1 + Len(batch)
           /\ IF Len(batch) > 0
              THEN /\ pc' = [pc EXCEPT ![r] = "createMany_insert"]
                   /\ loc' = [loc EXCEPT ![r].template_id = nextId, ![r].batch = batch]
              ELSE Finish(r, "create", OCCURRENCE, NoEntry, NullId, {}, "ok")
    /\ UNCHANGED <<now, entries, transactions, started, probe>>

-----------------------------------------------------------------------------
(* GenerateRecurringOccurrencesUseCase.execute *)

\* templateRepository.findById and the is_active check
GenerateFindTemplate(r, templateId, monthsAhead) ==
    /\ pc[r] = "idle"
    /\ started < MaxRequests
    /\ started' = started + 1
    /\ LET t == findTemplateById(OCCURRENCE, templateId)
       IN  IF t = NoTemplate
           THEN Finish(r, "generate", OCCURRENCE, NoEntry, NullId, {}, "Template not found")
           ELSE IF ~t.is_active
           THEN Finish(r, "generate", OCCURRENCE, NoEntry, NullId, {},
                       "Cannot generate occurrences for inactive template")
           ELSE /\ pc' = [pc EXCEPT ![r] = "gen_findExisting"]
                /\ loc' = [loc EXCEPT ![r] =
                             [NoLoc EXCEPT !.op = "generate", !.kind = OCCURRENCE,
                                           !.template_id = templateId, !.template = t,
                                           !.months_ahead = monthsAheadOrDefault(monthsAhead)]]
    /\ UNCHANGED <<now, templates, entries, transactions, nextId, probe>>

\* occurrenceRepository.findByTemplateId, the existing-dates set, the loop
GenerateFindExisting(r) ==
    /\ pc[r] = "gen_findExisting"
    /\ LET t == loc[r].template
           existingOccurrences == findByTemplateId(OCCURRENCE, loc[r].template_id)
           existingDates == {dateKey(entries[id].due_date) : id \in existingOccurrences}
           endDate == calculateEndDate(t, loc[r].months_ahead)
           dates == generationLoop(t, t.next_occurrence, endDate, existingDates)
           batch == occurrenceRows(dates, loc[r].template_id, nextId)
       IN  /\ nextId' = nextId + Len(batch)
           /\ IF Len(batch) > 0
              THEN /\ pc' = [pc EXCEPT ![r] = "createMany_insert"]
                   /\ loc' = [loc EXCEPT ![r].existing = existingOccurrences,
                                         ![r].batch = batch]
              ELSE Finish(r, "generate", OCCURRENCE, NoEntry, NullId, {}, "ok")
    /\ UNCHANGED <<now, templates, entries, transactions, started, probe>>

-----------------------------------------------------------------------------
(* createMany of the entry repositories, and the first-entry payment *)

\* prisma.<entry table>.createMany({ data }); rows of a template that is no
\* longer stored are rejected by the foreign key
CreateManyInsert(r) ==
    /\ pc[r] = "createMany_insert"
    /\ IF loc[r].template_id \in DOMAIN templates
       THEN /\ entries' = insertMany(loc[r].batch)
            /\ pc' = [pc EXCEPT ![r] = "createMany_readBack"]
            /\ loc' = loc
       ELSE /\ entries' = entries
            /\ Finish(r, loc[r].op, loc[r].kind, NoEntry, NullId, {}, "store_error")
    /\ UNCHANGED <<now, templates, transactions, nextId, started, probe>>

\* the read-back of createMany, and what the caller does with the rows:
\* return them, or go on to pay the first of them
CreateManyReadBack(r, S, first) ==
    /\ pc[r] = "createMany_readBack"
    /\ isReadBack(loc[r].kind, loc[r].template_id, Len(loc[r].batch), S)
    /\ mayBeFirst(S, first)
    /\ IF loc[r].op = "create" /\ loc[r].pay_first /\ S # {}
       THEN /\ pc' = [pc EXCEPT ![r] = "first_createTransaction"]
            /\ loc' = [loc EXCEPT ![r].entry = entries[first], ![r].returned = S]
       ELSE Finish(r, loc[r].op, loc[r].kind, NoEntry, NullId, S, "ok")
    /\ UNCHANGED <<now, templates, entries, transactions, nextId, started, probe>>

\* createFirstTransaction(createdTemplate, first), then first.markAsPaid(id)
FirstCreateTransaction(r) ==
    /\ pc[r] = "first_createTransaction"
    /\ LET e == loc[r].entry
           row == transactionFor(nextId, loc[r].kind, loc[r].template,
                                 loc[r].template_id, e, e.due_date)
       IN  /\ transactions' = insertTransaction(nextId, row)
           /\ nextId' = nextId + 1
           /\ IF markAsPaidError(e, nextId) = "ok"
              THEN /\ pc' = [pc EXCEPT ![r] = "first_markAsPaid"]
                   /\ loc' = [loc EXCEPT ![r].entry = markAsPaid(e, nextId),
                                         ![r].transaction_id = nextId]
              ELSE Finish(r, "create", loc[r].kind, e, nextId, loc[r].returned,
                          markAsPaidError(e, nextId))
    /\ UNCHANGED <<now, templates, entries, started, probe>>

\* repository.markAsPaid(first.id, firstTransaction.id), then return
FirstMarkAsPaid(r) ==
    /\ pc[r] = "first_markAsPaid"
    /\ IF loc[r].entry.id \in DOMAIN entries
       THEN /\ entries' = repoMarkAsPaid(loc[r].entry.id, loc[r].transaction_id)
            /\ Finish(r, "create", loc[r].kind, loc[r].entry, loc[r].transaction_id,
                      loc[r].returned, "ok")
       ELSE /\ entries' = entries
            /\ Finish(r, "create", loc[r].kind, loc[r].entry, loc[r].transaction_id,
                      loc[r].returned, "store_error")
    /\ UNCHANGED <<now, templates, transactions, nextId, started, probe>>

-----------------------------------------------------------------------------
(* Template lifecycle: templateRepository.deactivate / activate, as the
   controllers call them *)

\* prisma.installmentTemplate.update({ where: { id }, data: { is_active } })
setActive(id, flag) == [templates EXCEPT ![id] = [@ EXCEPT !.is_active = flag]]

\* the controller's handler: the repository call and the message; an update
\* of a row that is not there throws
SetTemplateActive(r, op, kind, id, flag) ==
    /\ pc[r] = "idle"
    /\ started < MaxRequests
    /\ started' = started + 1
    /\ IF findTemplateById(kind, id) # NoTemplate
       THEN /\ templates' = setActive(id, flag)
            /\ Finish(r, op, kind, NoEntry, NullId, {}, "ok")
       ELSE /\ templates' = templates
            /\ Finish(r, op, kind, NoEntry, NullId, {}, "store_error")
    /\ UNCHANGED <<now, entries, transactions, nextId, probe>>

deactivateTemplate(r, id) == SetTemplateActive(r, "deactivate", INSTALLMENT, id, FALSE)

activateTemplate(r, id) == SetTemplateActive(r, "activate", INSTALLMENT, id, TRUE)

\* The recurring template store's update of the active flag: the same
\* operations on a recurring template.
deactivateRecurringTemplate(r, id) == SetTemplateActive(r, "deactivate", OCCURRENCE, id, FALSE)

activateRecurringTemplate(r, id) == SetTemplateActive(r, "activate", OCCURRENCE, id, TRUE)

\* prisma.installmentTemplate.delete({ where: { id } })
removeTemplate(id) == [i \in DOMAIN templates \ {id} |-> templates[i]]

\* what the delete does to the installments of the template: with
\* onDelete: Cascade they go with it
removeInstallmentsOf(id) ==
    [i \in DOMAIN entries \ findByTemplateId(INSTALLMENT, id) |-> entries[i]]

\* The plausible slip: the template row goes and its installments stay.
deleteTemplateLeavesInstallments(r, id, cascade) ==
    /\ pc[r] = "idle"
    /\ started < MaxRequests
    /\ started' = started + 1
    /\ IF findTemplateById(INSTALLMENT, id) = NoTemplate
       THEN /\ UNCHANGED <<templates, entries>>
            /\ Finish(r, "delete", INSTALLMENT, NoEntry, NullId, {}, "store_error")
       ELSE /\ templates' = removeTemplate(id)
            /\ entries' = entries
            /\ Finish(r, "delete", INSTALLMENT, NoEntry, NullId, {}, "ok")
    /\ UNCHANGED <<now, transactions, nextId, probe>>

\* InstallmentController.deleteTemplate: templateRepository.delete(id).  The
\* referential action of the installments' relation is the schema's: it
\* cascades, or it restricts and the delete of a template with installments
\* is rejected.
deleteTemplate(r, id, cascade) ==
    /\ pc[r] = "idle"
    /\ started < MaxRequests
    /\ started' = started + 1
    /\ IF findTemplateById(INSTALLMENT, id) = NoTemplate
       THEN /\ UNCHANGED <<templates, entries>>
            /\ Finish(r, "delete", INSTALLMENT, NoEntry, NullId, {}, "store_error")
       ELSE IF cascade
       THEN /\ templates' = removeTemplate(id)
            /\ entries' = removeInstallmentsOf(id)
            /\ Finish(r, "delete", INSTALLMENT, NoEntry, NullId, {}, "ok")
       ELSE IF findByTemplateId(INSTALLMENT, id) # {}
       THEN /\ UNCHANGED <<templates, entries>>
            /\ Finish(r, "delete", INSTALLMENT, NoEntry, NullId, {}, "store_error")
       ELSE /\ templates' = removeTemplate(id)
            /\ entries' = entries
            /\ Finish(r, "delete", INSTALLMENT, NoEntry, NullId, {}, "ok")
    /\ UNCHANGED <<now, transactions, nextId, probe>>

-----------------------------------------------------------------------------
(* The clock, and the specification *)

Tick ==
    /\ \E t \in Instants : t > now /\ now' = t
    /\ UNCHANGED <<templates, entries, transactions, nextId, pc, loc, started, probe>>

NoProbe == [fn |-> "none"]

Init ==
    /\ now = Now0
    /\ templates = <<>>
    /\ entries = <<>>
    /\ transactions = <<>>
    /\ nextId = 1
    /\ started = 0
    /\ pc = [r \in Requests |-> "idle"]
    /\ loc = [r \in Requests |-> NoLoc]
    /\ probe = NoProbe

Next ==
    \/ Tick
    \/ \E r \in Requests :
        \/ \E kind \in Kinds, id \in EntryIdInputs, d \in TransactionDateInputs :
              PayFindEntry(r, kind, id, d)
        \/ PayFindTemplate(r)
        \/ PayCreateTransaction(r)
        \/ \E updateFails \in BOOLEAN : PayMarkAsPaid(r, updateFails)
        \/ \E kind \in Kinds, id \in EntryIdInputs : Skip(r, kind, id)
        \/ \E input \in CreateInstallmentInputs : CreateInstallmentBegin(r, input)
        \/ \E tieUp \in BOOLEAN, tieUpLast \in BOOLEAN :
              CreateInstallmentTemplate(r, tieUp, tieUpLast)
        \/ \E input \in CreateRecurringInputs : CreateRecurringBegin(r, input)
        \/ CreateRecurringTemplate(r)
        \/ \E id \in TemplateIdInputs, m \in MonthsAheadInputs :
              GenerateFindTemplate(r, id, m)
        \/ GenerateFindExisting(r)
        \/ CreateManyInsert(r)
        \/ \E S \in SUBSET DOMAIN entries, first \in DOMAIN entries \cup {NullId} :
              CreateManyReadBack(r, S, first)
        \/ FirstCreateTransaction(r)
        \/ FirstMarkAsPaid(r)
        \/ \E id \in TemplateIdInputs : deactivateTemplate(r, id)
        \/ \E id \in TemplateIdInputs : activateTemplate(r, id)
        \/ \E id \in TemplateIdInputs : deactivateRecurringTemplate(r, id)
        \/ \E id \in TemplateIdInputs : activateRecurringTemplate(r, id)
        \/ Return(r)

Spec == Init /\ [][Next]_vars

\* The same requests with the deletion of installment templates among them
NextDelete ==
    \/ Next
    \/ \E r \in Requests, id \in TemplateIdInputs, cascade \in BOOLEAN :
          deleteTemplate(r, id, cascade)

SpecDelete == Init /\ [][NextDelete]_vars

-----------------------------------------------------------------------------
(* The overdue gate as a pure function of the entry and the clock *)

\* the entries isOverdue() / canBePaid() are evaluated on: every status, due
\* dates from two days inside to two days beyond the 30-day limit, at every
\* time of day
OverdueEntries ==
    {[NoEntry EXCEPT !.id = 1, !.kind = k, !.status = s,
                     !.due_date = setDate(Now0, -d) + tod] :
        k \in Kinds, s \in OccurrenceStatus,
        d \in (OverdueDays - 2)..(OverdueDays + 2), tod \in 0..(TicksPerDay - 1)}

InitOverdue ==
    /\ now \in {Now0 + tod : tod \in 0..(TicksPerDay - 1)}
    /\ templates = <<>>
    /\ entries = <<>>
    /\ transactions = <<>>
    /\ nextId = 1
    /\ started = 0
    /\ pc = [r \in Requests |-> "idle"]
    /\ loc = [r \in Requests |-> NoLoc]
    /\ probe \in [fn : {"entry"}, entry : OverdueEntries]

\* entry.isOverdue() and entry.canBePaid() at the current instant
EvalOverdue ==
    /\ probe.fn = "entry"
    /\ probe' = [fn |-> "isOverdue", entry |-> probe.entry,
                 isOverdue |-> isOverdue(probe.entry),
                 canBePaid |-> canBePaid(probe.entry)]
    /\ UNCHANGED <<now, templates, entries, transactions, nextId, pc, loc, started>>

NextOverdue == EvalOverdue

SpecOverdue == InitOverdue /\ [][NextOverdue]_vars

-----------------------------------------------------------------------------
(* The overdue queries of the stores, on a store of one installment and one
   occurrence *)

\* the stores the queries run on: installment 1 and occurrence 2, each of
\* every status and due from two days inside to two days beyond the 30-day
\* limit, at every time of day
FindOverdueStores ==
    {(1 :> [NoEntry EXCEPT !.id = 1, !.kind = INSTALLMENT, !.template_id = 3,
                           !.installment_number = 1, !.amount = 5000,
                           !.status = s[1], !.due_date = setDate(Now0, -d[1]) + tod[1]])
       @@ (2 :> [NoEntry EXCEPT !.id = 2, !.kind = OCCURRENCE, !.template_id = 4,
                                !.status = s[2], !.due_date = setDate(Now0, -d[2]) + tod[2]]) :
        s \in OccurrenceStatus \X OccurrenceStatus,
        d \in ((OverdueDays - 2)..(OverdueDays + 2)) \X ((OverdueDays - 2)..(OverdueDays + 2)),
        tod \in (0..(TicksPerDay - 1)) \X (0..(TicksPerDay - 1))}

InitFindOverdue ==
    /\ now \in {Now0 + tod : tod \in 0..(TicksPerDay - 1)}
    /\ templates = <<>>
    /\ entries \in FindOverdueStores
    /\ transactions = <<>>
    /\ nextId = 5
    /\ started = 0
    /\ pc = [r \in Requests |-> "idle"]
    /\ loc = [r \in Requests |-> NoLoc]
    /\ probe = [fn |-> "store"]

\* GET overdue of both controllers: the repository query with its default
\* argument, currentDate = new Date()
EvalFindOverdue ==
    /\ probe.fn = "store"
    /\ probe' = [fn |-> "findOverdue",
                 installments |-> findOverdueInstallments(now),
                 occurrences |-> findOverdueOccurrences(now)]
    /\ UNCHANGED <<now, templates, entries, transactions, nextId, pc, loc, started>>

NextFindOverdue == EvalFindOverdue

SpecFindOverdue == InitFindOverdue /\ [][NextFindOverdue]_vars

-----------------------------------------------------------------------------
(* entity.markAsPaid as a pure function of the entity and the transaction id *)

\* the entities markAsPaid is called on: PENDING, PAID with its transaction,
\* SKIPPED with or without the transaction id of an earlier payment
MarkAsPaidEntries ==
    {[NoEntry EXCEPT !.id = 1, !.kind = k, !.status = st[1], !.transaction_id = st[2],
                     !.due_date = setDate(Now0, d) + tod] :
        k \in Kinds,
        st \in {<<PENDING, NullId>>, <<PAID, 2>>, <<SKIPPED, NullId>>, <<SKIPPED, 2>>},
        d \in -2..2, tod \in 0..(TicksPerDay - 1)}

\* the transaction id passed: empty, or the id of a transaction
MarkAsPaidIds == {NullId, 2, 3}

InitMarkAsPaid ==
    /\ now = Now0
    /\ templates = <<>>
    /\ entries = <<>>
    /\ transactions = <<>>
    /\ nextId = 1
    /\ started = 0
    /\ pc = [r \in Requests |-> "idle"]
    /\ loc = [r \in Requests |-> NoLoc]
    /\ probe \in [fn : {"markAsPaid"}, entry : MarkAsPaidEntries,
                  transaction_id : MarkAsPaidIds]

\* entry.markAsPaid(transactionId): what it throws, and the entity after it
EvalMarkAsPaid ==
    /\ probe.fn = "markAsPaid"
    /\ probe' = [fn |-> "markedAsPaid", entry |-> probe.entry,
                 transaction_id |-> probe.transaction_id,
                 outcome |-> markAsPaidError(probe.entry, probe.transaction_id),
                 after |-> markAsPaid(probe.entry, probe.transaction_id)]
    /\ UNCHANGED <<now, templates, entries, transactions, nextId, pc, loc, started>>

NextMarkAsPaid == EvalMarkAsPaid

SpecMarkAsPaid == InitMarkAsPaid /\ [][NextMarkAsPaid]_vars

-----------------------------------------------------------------------------
(* The installment amount split as a pure function of the template *)

\* total amounts, in cents
SplitTotals == {100, 9999, 10000}

SplitTemplates ==
    {installmentTemplateRow(
        [total_amount |-> total, total_installments |-> n,
         first_installment_date |-> Now0, pay_first_installment |-> FALSE,
         account_exists |-> TRUE,
      couple_id |-> "couple_1", paid_by_id |-> "user_a", account_id |-> "account_1",
      account_owner_id |-> "", visibility |-> "SHARED",
      is_couple_expense |-> TRUE, is_free_spending |-> FALSE]) :
        total \in SplitTotals, n \in MinInstallments..MaxInstallments}

InitSplit ==
    /\ now = Now0
    /\ templates = <<>>
    /\ entries = <<>>
    /\ transactions = <<>>
    /\ nextId = 1
    /\ started = 0
    /\ pc = [r \in Requests |-> "idle"]
    /\ loc = [r \in Requests |-> NoLoc]
    /\ probe \in [fn : {"template"}, template : SplitTemplates]

\* generateInstallments(template)
EvalSplit(tieUp, tieUpLast) ==
    /\ probe.fn = "template"
    /\ probe' = [fn |-> "generateInstallments", template |-> probe.template,
                 installments |-> generateInstallments(probe.template, 1, 2,
                                                       tieUp, tieUpLast)]
    /\ UNCHANGED <<now, templates, entries, transactions, nextId, pc, loc, started>>

NextSplit == \E tieUp \in BOOLEAN, tieUpLast \in BOOLEAN : EvalSplit(tieUp, tieUpLast)

SpecSplit == InitSplit /\ [][NextSplit]_vars

-----------------------------------------------------------------------------
(* Occurrence generation as a function of the template, the clock and the
   stored occurrences: generate run twice at one clock reading *)

\* the intervals tried with frequency f (daily rules in longer strides, to
\* keep the schedules short)
GenerateIntervals(f) == IF f = DAILY THEN {10, 15} ELSE {1, 2}

GenerateTemplates ==
    UNION {
        {recurringTemplateRow(
            [type |-> "EXPENSE", amount |-> 5000, frequency |-> f, interval |-> i,
             start_date |-> s, end_date |-> e, create_first_transaction |-> FALSE,
             months_ahead |-> 0, account_exists |-> TRUE,
      couple_id |-> "couple_1", paid_by_id |-> "user_a", account_id |-> "account_1",
      account_owner_id |-> "", visibility |-> "SHARED",
      is_couple_expense |-> TRUE, is_free_spending |-> FALSE]) :
            i \in GenerateIntervals(f),
            s \in {Now0 + 1, setDate(Now0, -(OverdueDays + 1)),
                   DayNumber(EpochYear, 1, 31) * TicksPerDay},
            e \in {<<>>, <<setMonth(Now0, 2)>>}} :
        f \in {DAILY, WEEKLY, MONTHLY, YEARLY}}

InitGenerate ==
    /\ now \in {Now0, Now0 + 1}
    /\ templates = <<>>
    /\ entries = <<>>
    /\ transactions = <<>>
    /\ nextId = 1
    /\ started = 0
    /\ pc = [r \in Requests |-> "idle"]
    /\ loc = [r \in Requests |-> NoLoc]
    /\ probe \in [fn : {"generate"}, runs : {0}, template : GenerateTemplates,
                  months_ahead : {monthsAheadOrDefault(m) : m \in MonthsAheadInputs},
                  stored : {{}, {Now0}}, storedBefore : {{}},
                  created : {<<>>}, createdBefore : {<<>>}]

\* one run of GenerateRecurringOccurrencesUseCase.execute on an active
\* template: the due dates it creates, added to the stored ones
EvalGenerate ==
    /\ probe.fn = "generate"
    /\ probe.runs < 2
    /\ LET t == probe.template
           existingDates == {dateKey(d) : d \in probe.stored}
           dates == generationLoop(t, t.next_occurrence,
                                   calculateEndDate(t, probe.months_ahead), existingDates)
       IN  probe' = [probe EXCEPT !.runs = @ + 1,
                                  !.stored = @ \cup {dates[i] : i \in DOMAIN dates},
                                  !.storedBefore = probe.stored,
                                  !.created = dates,
                                  !.createdBefore = probe.created]
    /\ UNCHANGED <<now, templates, entries, transactions, nextId, pc, loc, started>>

NextGenerate == EvalGenerate

SpecGenerate == InitGenerate /\ [][NextGenerate]_vars

-----------------------------------------------------------------------------
(* Generation runs one after the other for one template: the generation at
   the template's creation, then generate calls, the clock advancing between
   them *)

MaxRuns == 3

MaxAdvances == 2

InitRuns ==
    /\ now \in {Now0, Now0 + 1}
    /\ templates = <<>>
    /\ entries = <<>>
    /\ transactions = <<>>
    /\ nextId = 1
    /\ started = 0
    /\ pc = [r \in Requests |-> "idle"]
    /\ loc = [r \in Requests |-> NoLoc]
    /\ probe \in [fn : {"runs"}, runs : {0}, advances : {0},
                  template : GenerateTemplates, stored : {<<>>}, created : {<<>>}]

\* CreateRecurringTransactionUseCase: generateOccurrences and createMany
RunCreate(monthsAhead) ==
    /\ probe.fn = "runs"
    /\ probe.runs = 0
    /\ LET dates == generateOccurrences(probe.template, monthsAheadOrDefault(monthsAhead))
       IN  probe' = [probe EXCEPT !.runs = 1, !.stored = dates, !.created = dates]
    /\ UNCHANGED <<now, templates, entries, transactions, nextId, pc, loc, started>>

\* GenerateRecurringOccurrencesUseCase.execute from the first read to createMany
RunGenerate(monthsAhead) ==
    /\ probe.fn = "runs"
    /\ probe.runs >= 1
    /\ probe.runs < MaxRuns
    /\ LET t == probe.template
           existingDates == {dateKey(probe.stored[i]) : i \in DOMAIN probe.stored}
           dates == generationLoop(t, t.next_occurrence,
                                   calculateEndDate(t, monthsAheadOrDefault(monthsAhead)),
                                   existingDates)
       IN  probe' = [probe EXCEPT !.runs = @ + 1, !.stored = @ \o dates,
                                  !.created = dates]
    /\ UNCHANGED <<now, templates, entries, transactions, nextId, pc, loc, started>>

\* time passes between two runs: a tick, a day or a month
AdvanceClock(to) ==
    /\ probe.fn = "runs"
    /\ probe.advances < MaxAdvances
    /\ to > now
    /\ now' = to
    /\ probe' = [probe EXCEPT !.advances = @ + 1]
    /\ UNCHANGED <<templates, entries, transactions, nextId, pc, loc, started>>

NextRuns ==
    \/ \E m \in MonthsAheadInputs : RunCreate(m)
    \/ \E m \in MonthsAheadInputs : RunGenerate(m)
    \/ \E to \in {now + 1, setDate(now, 1), setMonth(now, 1)} : AdvanceClock(to)

SpecRuns == InitRuns /\ [][NextRuns]_vars

-----------------------------------------------------------------------------
(* The next-date step applied again and again from a start date *)

MaxSteps == 3

\* the start dates: every day of January to March of EpochYear, at
\* midnight and later in the day
NextDateStarts ==
    {day * TicksPerDay + tod :
        day \in DayNumber(EpochYear, 1, 1)..DayNumber(EpochYear, 3, 31),
        tod \in {0, 1}}

InitNextDate ==
    /\ now = Now0
    /\ templates = <<>>
    /\ entries = <<>>
    /\ transactions = <<>>
    /\ nextId = 1
    /\ started = 0
    /\ pc = [r \in Requests |-> "idle"]
    /\ loc = [r \in Requests |-> NoLoc]
    /\ probe \in {[fn |-> "nextDate", frequency |-> f, interval |-> i, start |-> s,
                    k |-> 0, previous |-> s, currentDate |-> s] :
                      f \in {DAILY, WEEKLY, MONTHLY, YEARLY}, i \in {1, 2},
                      s \in NextDateStarts}

\* currentDate = this.calculateNextDate(currentDate, frequency, interval)
StepNextDate ==
    /\ probe.fn = "nextDate"
    /\ probe.k < MaxSteps
    /\ probe' = [probe EXCEPT
                    !.k = @ + 1,
                    !.previous = probe.currentDate,
                    !.currentDate = calculateNextDate(probe.currentDate, probe.frequency,
                                                      probe.interval)]
    /\ UNCHANGED <<now, templates, entries, transactions, nextId, pc, loc, started>>

NextNextDate == StepNextDate

SpecNextDate == InitNextDate /\ [][NextNextDate]_vars

-----------------------------------------------------------------------------
(* The generation loop of GenerateRecurringOccurrencesUseCase.execute, one
   iteration at a time *)

\* active templates of every frequency with interval 1 and 2, starting after
\* now, on 31 January and on 29 February, with and without an end date
LoopTemplates ==
    {recurringTemplateRow(
        [type |-> "EXPENSE", amount |-> 5000, frequency |-> f, interval |-> i,
         start_date |-> s, end_date |-> e, create_first_transaction |-> FALSE,
         months_ahead |-> 0, account_exists |-> TRUE,
         couple_id |-> "couple_1", paid_by_id |-> "user_a", account_id |-> "account_1",
         account_owner_id |-> "", visibility |-> "SHARED",
         is_couple_expense |-> TRUE, is_free_spending |-> FALSE]) :
        f \in {DAILY, WEEKLY, MONTHLY, YEARLY}, i \in {1, 2},
        s \in {Now0 + 1, DayNumber(EpochYear, 1, 31) * TicksPerDay,
               DayNumber(EpochYear, 2, 29) * TicksPerDay},
        e \in {<<>>, <<setMonth(Now0, 2)>>}}

\* let currentDate = new Date(template.next_occurrence), with the horizon
\* calculateEndDate(template, monthsAhead)
InitLoop ==
    /\ now \in {Now0, Now0 + 1}
    /\ templates = <<>>
    /\ entries = <<>>
    /\ transactions = <<>>
    /\ nextId = 1
    /\ started = 0
    /\ pc = [r \in Requests |-> "idle"]
    /\ loc = [r \in Requests |-> NoLoc]
    /\ probe \in {[fn |-> "loop", template |-> t,
                    endDate |-> calculateEndDate(t, monthsAheadOrDefault(m)),
                    currentDate |-> t.next_occurrence, ended |-> FALSE] :
                      t \in LoopTemplates, m \in MonthsAheadInputs}

\* the test of the while, and one pass through its body: the cursor moves to
\* calculateNextDate, and the loop breaks when that is past the end date
LoopStep ==
    /\ probe.fn = "loop"
    /\ ~probe.ended
    /\ LET t == probe.template
           nextDate == calculateNextDate(probe.currentDate, t.frequency, t.interval)
       IN  IF ~(probe.currentDate <= probe.endDate)
           THEN probe' = [probe EXCEPT !.ended = TRUE]
           ELSE probe' = [probe EXCEPT
                             !.currentDate = nextDate,
                             !.ended = (t.end_date # <<>> /\ nextDate > t.end_date[1])]
    /\ UNCHANGED <<now, templates, entries, transactions, nextId, pc, loc, started>>

NextLoop == LoopStep

\* the loop is synchronous code: it keeps running until it ends
SpecLoop == InitLoop /\ [][NextLoop]_vars /\ WF_vars(LoopStep)

-----------------------------------------------------------------------------
(* The due date of an installment as a pure function of the template *)

\* first due dates: the 1st of February, month ends that roll over, a date
\* late in the year, one of them not at midnight
DueDateFirsts ==
    {DayNumber(EpochYear, 2, 1) * TicksPerDay,
     DayNumber(EpochYear, 1, 31) * TicksPerDay,
     DayNumber(EpochYear, 1, 30) * TicksPerDay + 1,
     DayNumber(EpochYear, 11, 30) * TicksPerDay,
     DayNumber(EpochYear, 12, 15) * TicksPerDay}

DueDateTemplates ==
    {installmentTemplateRow(
        [total_amount |-> 120000, total_installments |-> n,
         first_installment_date |-> d, pay_first_installment |-> FALSE,
         account_exists |-> TRUE,
      couple_id |-> "couple_1", paid_by_id |-> "user_a", account_id |-> "account_1",
      account_owner_id |-> "", visibility |-> "SHARED",
      is_couple_expense |-> TRUE, is_free_spending |-> FALSE]) :
        n \in {MinInstallments, 12}, d \in DueDateFirsts}

InitDueDate ==
    /\ now = Now0
    /\ templates = <<>>
    /\ entries = <<>>
    /\ transactions = <<>>
    /\ nextId = 1
    /\ started = 0
    /\ pc = [r \in Requests |-> "idle"]
    /\ loc = [r \in Requests |-> NoLoc]
    /\ probe \in [fn : {"installmentNumber"}, template : DueDateTemplates,
                  installment_number : 0..13]

\* template.calculateDueDate(installmentNumber): throws, or the due date
EvalDueDate ==
    /\ probe.fn = "installmentNumber"
    /\ probe' = [fn |-> "calculateDueDate", template |-> probe.template,
                 installment_number |-> probe.installment_number,
                 rejected |-> calculateDueDateError(probe.template,
                                                    probe.installment_number),
                 due_date |-> IF calculateDueDateError(probe.template,
                                                       probe.installment_number)
                              THEN 0
                              ELSE calculateDueDate(probe.template,
                                                    probe.installment_number)]
    /\ UNCHANGED <<now, templates, entries, transactions, nextId, pc, loc, started>>

NextDueDate == EvalDueDate

SpecDueDate == InitDueDate /\ [][NextDueDate]_vars

-----------------------------------------------------------------------------
(* Properties *)

\* no request is inside a handler
Quiescent == \A r \in Requests : pc[r] \in {"idle", "done"}

\* the ledger rows created for entry id
TransactionsFor(id) == {t \in DOMAIN transactions : transactions[t].entry_id = id}

\* request r holds the response of operation op on stored entry id
Responded(r, op, id) ==
    /\ pc[r] = "done"
    /\ loc[r].op = op
    /\ loc[r].entry.id = id
    /\ id \in DOMAIN entries
    /\ loc[r].kind = entries[id].kind

\* in this step request r is received, as operation op on stored entry id
Received(r, op, id) ==
    /\ pc[r] = "idle"
    /\ pc'[r] # "idle"
    /\ loc'[r].op = op
    /\ loc'[r].entry.id = id
    /\ id \in DOMAIN entries
    /\ loc'[r].kind = entries[id].kind

\* C1: once every operation has completed, each stored entry has a non-null
\* transaction_id if and only if its status is PAID.
C1_TransactionIdIffPaid ==
    Quiescent =>
        \A id \in DOMAIN entries :
            (entries[id].transaction_id # NullId) <=> (entries[id].status = PAID)

\* C2: of two settle calls on the same entry, at most one returns success.
C2_AtMostOneSettleSucceeds ==
    \A r1 \in Requests, r2 \in Requests, id \in DOMAIN entries :
        (r1 # r2 /\ Responded(r1, "pay", id) /\ Responded(r2, "pay", id))
            => ~(loc[r1].outcome = "ok" /\ loc[r2].outcome = "ok")

\* C3: no entry ever has more than one ledger transaction created for it, and
\* a stored PAID entry has exactly one.
C3_OneTransactionPerEntry ==
    \A id \in DOMAIN entries :
        /\ Cardinality(TransactionsFor(id)) <= 1
        /\ entries[id].status = PAID => Cardinality(TransactionsFor(id)) = 1

\* C4: the status of a stored entry that is PAID or SKIPPED is never PENDING
\* after any step.
C4_StatusNeverRevertsToPending ==
    [][\A id \in DOMAIN entries :
          entries[id].status \in {PAID, SKIPPED}
              => (id \in DOMAIN entries' /\ entries'[id].status # PENDING)]_vars

\* C4 happens: an entry that was PAID has been through a later skip, and is
\* not PENDING.
C4_Witness ==
    \E id \in DOMAIN entries, r \in Requests :
        /\ Responded(r, "skip", id)
        /\ entries[id].transaction_id # NullId
        /\ entries[id].status = SKIPPED

\* C5: a pay or skip request received for an entry that is already PAID or
\* SKIPPED fails and leaves the stored entry unchanged.
C5_PaidAndSkippedAreTerminal ==
    [][\A r \in Requests, id \in DOMAIN entries :
          ((Received(r, "pay", id) \/ Received(r, "skip", id))
             /\ entries[id].status \in {PAID, SKIPPED})
              => /\ pc'[r] = "done"
                 /\ loc'[r].outcome # "ok"
                 /\ entries'[id] = entries[id]]_vars

\* C6: no step moves a stored entry to PAID while isOverdue() is true for it.
C6_NeverPaidWhileOverdue ==
    [][\A id \in DOMAIN entries :
          (entries[id].status # PAID /\ entries'[id].status = PAID)
              => ~isOverdue(entries[id])]_vars

\* C7: a PENDING overdue entry stays overdue when the clock advances; a settle
\* request received for it fails with the overdue error, writes nothing and
\* creates no transaction; a skip request received for it succeeds and leaves
\* it SKIPPED.
C7_OverdueBlocksPayNotSkip ==
    [][\A id \in DOMAIN entries :
          (isPending(entries[id]) /\ isOverdue(entries[id]))
              => /\ (now' # now /\ isPending(entries'[id]))
                        => (now' \div TicksPerDay)
                             - (entries'[id].due_date \div TicksPerDay) > 30
                 /\ \A r \in Requests :
                      /\ Received(r, "pay", id)
                            => /\ pc'[r] = "done"
                               /\ loc'[r].outcome = "overdue"
                               /\ entries' = entries
                               /\ transactions' = transactions
                      /\ Received(r, "skip", id)
                            => /\ pc'[r] = "done"
                               /\ loc'[r].outcome = "ok"
                               /\ entries'[id].status = SKIPPED]_vars

\* C7 happens: a settle of an overdue entry was refused as overdue, and a skip
\* of the same entry has then succeeded.
C7_Witness ==
    \E id \in DOMAIN entries, r1 \in Requests, r2 \in Requests :
        /\ Responded(r1, "pay", id) /\ loc[r1].outcome = "overdue"
        /\ Responded(r2, "skip", id) /\ loc[r2].outcome = "ok"
        /\ entries[id].status = SKIPPED
        /\ entries[id].transaction_id = NullId
        /\ isOverdue(entries[id])

\* C8: isOverdue() is true exactly when the due date's calendar day is more
\* than 30 days before today's calendar day, whatever the status and the
\* times of day; canBePaid() is true exactly when the entry is PENDING and
\* isOverdue() is false.
C8_OverdueIffMoreThan30Days ==
    probe.fn = "isOverdue" =>
        LET daysLate == (now \div TicksPerDay) - (probe.entry.due_date \div TicksPerDay)
        IN  /\ probe.isOverdue <=> daysLate > 30
            /\ probe.canBePaid <=> (probe.entry.status = PENDING /\ ~probe.isOverdue)

\* C8 happens: an entry due 31 calendar days ago, at another time of day than
\* now and not PENDING, has been found overdue.
C8_Witness ==
    /\ probe.fn = "isOverdue"
    /\ (now \div TicksPerDay) - (probe.entry.due_date \div TicksPerDay) = 31
    /\ TimeOfDay(now) < TimeOfDay(probe.entry.due_date)
    /\ probe.entry.status = PAID
    /\ probe.isOverdue
    /\ ~probe.canBePaid

\* C9: the amounts of the generated installments sum exactly to total_amount.
C9_SplitSumsToTotal ==
    probe.fn = "generateInstallments" =>
        SumAmounts(probe.installments, Len(probe.installments))
            = probe.template.total_amount

\* C10: installments 1..N-1 each carry per = total/N rounded to the cent, and
\* installment N carries total - per*(N-1).
C10_RemainderAbsorbedByLast ==
    probe.fn = "generateInstallments" =>
        LET t == probe.template
            N == t.total_installments
            per == probe.installments[1].amount
        IN  /\ per \in {roundCents(t.total_amount, N, up) : up \in BOOLEAN}
            /\ \A i \in 1..(N - 1) : probe.installments[i].amount = per
            /\ probe.installments[N].amount = t.total_amount - per * (N - 1)

\* C11: a second generate run for the same template, with the same
\* months_ahead and at the same clock reading, creates no occurrence.
C11_GenerateIdempotent ==
    (probe.fn = "generate" /\ probe.runs = 2) => probe.created = <<>>

\* C11 happens: the first run created occurrences, the second has run.
C11_Witness ==
    /\ probe.fn = "generate"
    /\ probe.runs = 2
    /\ Len(probe.createdBefore) > 1
    /\ probe.created = <<>>

\* the installments stored for template tid in the given entry store
InstallmentsOf(store, tid) ==
    {id \in DOMAIN store :
        store[id].kind = INSTALLMENT /\ store[id].template_id = tid}

\* C12: the batch write of an installment-template creation stores exactly
\* total_installments installments for the template, numbered 1..N without
\* repetition, each PENDING with a null transaction_id.
C12_CreateStoresAllInstallments ==
    [][\A r \in Requests :
          (pc[r] = "createMany_insert" /\ pc'[r] # "createMany_insert"
             /\ loc[r].kind = INSTALLMENT)
              => LET tid == loc[r].template_id
                     N == templates[tid].total_installments
                     ids == InstallmentsOf(entries', tid)
                 IN  /\ Cardinality(ids) = N
                     /\ \A n \in 1..N :
                          Cardinality({id \in ids : entries'[id].installment_number = n}) = 1
                     /\ \A id \in ids : /\ entries'[id].status = PENDING
                                        /\ entries'[id].transaction_id = NullId]_vars

\* C12 happens: a creation has written its batch, and the installments of its
\* template are in the store.
C12_Witness ==
    \E r \in Requests :
        /\ pc[r] = "createMany_readBack"
        /\ loc[r].kind = INSTALLMENT
        /\ Cardinality(InstallmentsOf(entries, loc[r].template_id)) = 2

C14_RefusalNamesTheState ==
    [][\A r \in Requests, id \in DOMAIN entries :
          (Received(r, "pay", id) /\ ~canBePaid(entries[id]))
              => /\ pc'[r] = "done"
                 /\ loc'[r].outcome # "cannot_be_paid"
                 /\ entries[id].status = PAID => loc'[r].outcome = "already_paid"
                 /\ entries[id].status = SKIPPED => loc'[r].outcome = "skipped"
                 /\ entries[id].status = PENDING => loc'[r].outcome = "overdue"]_vars

\* C14 happens: a settle of a PAID entry that is by now also overdue has been
\* refused as already paid.
C14_Witness ==
    \E r \in Requests, id \in DOMAIN entries :
        /\ Responded(r, "pay", id)
        /\ loc[r].outcome = "already_paid"
        /\ entries[id].status = PAID
        /\ isOverdue(entries[id])

\* C15: a settle that succeeds has created one new transaction, dated with
\* the supplied transaction_date or else with the entry's due_date, and when it
\* returns the stored entry is PAID with that transaction's id.
C15_SettleCreatesDatedTransaction ==
    [][\A r \in Requests :
          /\ (pc[r] = "pay_createTransaction" /\ pc'[r] # "pay_createTransaction")
                => LET e == loc[r].entry
                       new == (DOMAIN transactions') \ (DOMAIN transactions)
                   IN  /\ new = {loc'[r].transaction_id}
                       /\ \A t \in new :
                            /\ transactions'[t].entry_id = e.id
                            /\ transactions'[t].transaction_date =
                                 IF loc[r].transaction_date # <<>>
                                 THEN loc[r].transaction_date[1] ELSE e.due_date
          /\ (pc[r] = "pay_markAsPaid" /\ pc'[r] = "done" /\ loc'[r].outcome = "ok")
                => LET id == loc[r].entry.id
                   IN  /\ loc'[r].transaction_id = loc[r].transaction_id
                       /\ loc[r].transaction_id \in DOMAIN transactions
                       /\ entries'[id].status = PAID
                       /\ entries'[id].transaction_id = loc[r].transaction_id]_vars

\* C15 happens: a settle without transaction_date has returned; the entry is
\* PAID and refers to a transaction dated with its due date.
C15_Witness ==
    \E r \in Requests, id \in DOMAIN entries :
        /\ Responded(r, "pay", id)
        /\ loc[r].outcome = "ok"
        /\ entries[id].status = PAID
        /\ entries[id].transaction_id = loc[r].transaction_id
        /\ transactions[loc[r].transaction_id].transaction_date = entries[id].due_date
        /\ Cardinality(TransactionsFor(id)) = 1

\* request r takes this step, and it is a step of a generate call
GenerateStep(r) ==
    /\ pc'[r] # pc[r]
    /\ pc[r] # "done"
    /\ (IF pc[r] = "idle" THEN loc'[r].op ELSE loc[r].op) = "generate"

\* What does hold of generate and inactive templates: a generate call that
\* finds no active recurring template in the store when it reads the template
\* fails at once and stores nothing; a generate call stores occurrences only
\* for a template it read as active; and no step of generate removes or
\* changes an occurrence already stored.
InactiveGenerateStoresNothing ==
    [][\A r \in Requests :
          GenerateStep(r) =>
            /\ (/\ pc[r] = "idle"
                /\ \A tid \in DOMAIN templates :
                      templates[tid].kind = OCCURRENCE => ~templates[tid].is_active)
               => /\ pc'[r] = "done"
                  /\ loc'[r].outcome \in
                        {"Template not found",
                         "Cannot generate occurrences for inactive template"}
                  /\ entries' = entries
            /\ (pc'[r] = "done"
                /\ loc'[r].outcome = "Cannot generate occurrences for inactive template")
               => /\ entries' = entries
                  /\ \E tid \in DOMAIN templates :
                        templates[tid].kind = OCCURRENCE /\ ~templates[tid].is_active
            /\ entries' # entries => loc[r].template.is_active
            /\ \A id \in DOMAIN entries :
                  id \in DOMAIN entries' /\ entries'[id] = entries[id]]_vars

\* a generate call was refused for a deactivated template that has occurrences
InactiveGenerateRefused ==
    \E r \in Requests, tid \in DOMAIN templates :
        /\ pc[r] = "done"
        /\ loc[r].op = "generate"
        /\ loc[r].outcome = "Cannot generate occurrences for inactive template"
        /\ templates[tid].kind = OCCURRENCE
        /\ ~templates[tid].is_active
        /\ findByTemplateId(OCCURRENCE, tid) # {}

\* C16: generate on an inactive template stores nothing, so while a recurring
\* template is inactive no step of a generate call adds to, removes from or
\* changes the occurrences stored for it.
C16_InactiveTemplateNeverGrows ==
    [][\A tid \in DOMAIN templates :
          (/\ templates[tid].kind = OCCURRENCE
           /\ ~templates[tid].is_active
           /\ \E r \in Requests : GenerateStep(r))
          => /\ \A id \in DOMAIN entries' :
                   entries'[id].template_id = tid => id \in DOMAIN entries
             /\ \A id \in DOMAIN entries :
                   entries[id].template_id = tid
                   => id \in DOMAIN entries' /\ entries'[id] = entries[id]]_vars

\* C17: when a generate call, or the generation at the creation of a recurring
\* template, ends having stored at least one occurrence, the template's
\* next_occurrence in the template store is later than the due date of every
\* occurrence the call generated.
C17_CursorAdvancesWithGeneration ==
    [][\A r \in Requests :
          (/\ pc[r] = "createMany_readBack"
           /\ pc'[r] = "done"
           /\ loc[r].kind = OCCURRENCE
           /\ loc[r].op \in {"generate", "create"})
          => \A i \in 1..Len(loc[r].batch) :
                templates'[loc[r].template_id].next_occurrence
                    > loc[r].batch[i].due_date]_vars

\* some request is inside a create use case
CreateInProgress ==
    \E r \in Requests : loc[r].op = "create" /\ pc[r] \notin {"idle", "done"}

\* C18: whenever no create is in progress, also after a create that failed
\* while building or writing its installments, every installment template in
\* the template store has exactly total_installments installments in the
\* entry store.
C18_InstallmentCreationIsAtomic ==
    ~CreateInProgress =>
        \A tid \in DOMAIN templates :
            templates[tid].kind = INSTALLMENT =>
                Cardinality(findByTemplateId(INSTALLMENT, tid))
                    = templates[tid].total_installments

\* the refusals of validateInput for the count and the total
InputRefusals ==
    {"Total installments must be at least 2", "Maximum 120 installments allowed",
     "Total amount must be positive"}

\* an installment template with a count in 2..120 and a positive total
WithinLimits(t) ==
    /\ t.total_installments >= MinInstallments
    /\ t.total_installments <= MaxInstallments
    /\ t.total_amount > 0

\* C19: a create of an installment template refused for its count (below 2 or
\* above 120) or for a total that is not positive stores no template and no
\* installment; no create goes on to the stores with such an input, and no
\* stored installment template has a count outside 2..120.
C19_InvalidCreateStoresNothing ==
    [][/\ \A r \in Requests :
            /\ (/\ pc[r] = "idle"
                /\ pc'[r] = "done"
                /\ loc'[r].op = "create"
                /\ loc'[r].kind = INSTALLMENT
                /\ loc'[r].outcome \in InputRefusals)
               => templates' = templates /\ entries' = entries
            /\ pc'[r] = "ci_createTemplate" => WithinLimits(loc'[r].template)
       /\ \A tid \in DOMAIN templates' :
            templates'[tid].kind = INSTALLMENT => WithinLimits(templates'[tid])]_vars

\* a create with one installment only has been refused, and nothing is stored
C19_Witness ==
    \E r \in Requests :
        /\ pc[r] = "done"
        /\ loc[r].op = "create"
        /\ loc[r].kind = INSTALLMENT
        /\ loc[r].outcome = "Total installments must be at least 2"
        /\ DOMAIN templates = {}
        /\ DOMAIN entries = {}

\* the transaction refers to a recurring template only
RecurringReferenceOnly(t) ==
    /\ t.recurring_template_id # NullId
    /\ t.installment_group_id = NullId
    /\ t.installment_number = 0
    /\ t.total_installments = 0
    /\ entries[t.entry_id].kind = OCCURRENCE
    /\ t.recurring_template_id = entries[t.entry_id].template_id

\* the transaction refers to an installment of a template only
InstallmentReferenceOnly(t) ==
    /\ t.recurring_template_id = NullId
    /\ t.installment_group_id # NullId
    /\ t.installment_number # 0
    /\ t.total_installments # 0
    /\ entries[t.entry_id].kind = INSTALLMENT
    /\ t.installment_group_id = entries[t.entry_id].template_id
    /\ t.installment_number = entries[t.entry_id].installment_number
    /\ t.total_installments = templates[t.installment_group_id].total_installments

\* C20: every transaction created by a settlement or a first-entry payment
\* carries exactly one kind of back-reference: the recurring template id with
\* the three installment fields null, or the three installment fields (the
\* group id the template's id, the number the paid installment's) with the
\* recurring template id null.
C20_ExactlyOneBackReference ==
    \A id \in DOMAIN transactions :
        \/ RecurringReferenceOnly(transactions[id])
        \/ InstallmentReferenceOnly(transactions[id])

\* the settlement of the second installment has created its transaction
C20_Witness ==
    \E id \in DOMAIN transactions :
        /\ transactions[id].installment_number = 2
        /\ entries[transactions[id].entry_id].status = "PAID"
        /\ entries[transactions[id].entry_id].transaction_id = id

\* the length of schedule looked at: more dates than fit before any horizon
MaxSchedule == 24

\* the dates d, nextDate(d), nextDate(nextDate(d)), ... that are not later
\* than limit, at most k of them
RECURSIVE ScheduleUpTo(_, _, _, _, _)
ScheduleUpTo(d, frequency, interval, limit, k) ==
    IF k = 0 \/ d > limit THEN <<>>
    ELSE <<d>> \o ScheduleUpTo(calculateNextDate(d, frequency, interval),
                               frequency, interval, limit, k - 1)

\* min(today + months_ahead months, end_date)
HorizonOf(t, monthsAhead) ==
    LET ahead == setMonth(now, monthsAhead)
    IN  IF t.end_date = <<>> THEN ahead
        ELSE IF t.end_date[1] < ahead THEN t.end_date[1] ELSE ahead

\* the dates of the template's sequence that are not later than the horizon
ScheduleOf(t, monthsAhead) ==
    ScheduleUpTo(t.next_occurrence, t.frequency, t.interval,
                 HorizonOf(t, monthsAhead), MaxSchedule)

\* the dates a generate run is to create, given the dates stored before it
DueToCreate(t, monthsAhead, storedBefore) ==
    LET schedule == ScheduleOf(t, monthsAhead)
    IN  {d \in {schedule[k] : k \in DOMAIN schedule} :
            \A e \in storedBefore : dateKey(e) # dateKey(d)}

\* C21: a generate run on an active template creates exactly one occurrence
\* for each date of the sequence next_occurrence, nextDate(next_occurrence),
\* ... that is not later than min(today + months_ahead months, end_date) and
\* whose calendar date is not among the existing occurrences, and no other;
\* none is due after the horizon or after the template's end_date.
C21_GenerateCreatesTheSchedule ==
    (probe.fn = "generate" /\ probe.runs >= 1) =>
        LET t == probe.template
            created == probe.created
            due == DueToCreate(t, probe.months_ahead, probe.storedBefore)
        IN  /\ Len(ScheduleOf(t, probe.months_ahead)) < MaxSchedule
            /\ {created[i] : i \in DOMAIN created} = due
            /\ Len(created) = Cardinality(due)
            /\ \A i \in DOMAIN created :
                  /\ created[i] <= setMonth(now, probe.months_ahead)
                  /\ t.end_date # <<>> => created[i] <= t.end_date[1]

\* a first run that created occurrences up to one due exactly at the horizon
\* and left out a scheduled date whose calendar date was already stored
C21_Witness ==
    /\ probe.fn = "generate"
    /\ probe.runs = 1
    /\ \E i \in DOMAIN probe.created :
          probe.created[i] = HorizonOf(probe.template, probe.months_ahead)
    /\ \E k \in DOMAIN ScheduleOf(probe.template, probe.months_ahead),
          e \in probe.storedBefore :
          dateKey(e) = dateKey(ScheduleOf(probe.template, probe.months_ahead)[k])

\* C22: after the generation at creation and any number of generate runs
\* that do not overlap, the clock possibly advancing between them, no two
\* stored occurrences of the template have the same due date.
C22_NoDuplicateDueDates ==
    probe.fn = "runs" =>
        \A i, j \in DOMAIN probe.stored :
            i # j => probe.stored[i] # probe.stored[j]

\* a generate run after the creation, at a later clock reading, has stored
\* further occurrences beside the ones already there
C22_Witness ==
    /\ probe.fn = "runs"
    /\ probe.runs >= 2
    /\ probe.advances >= 1
    /\ Len(probe.created) > 0
    /\ Len(probe.stored) > Len(probe.created)

\* the stored occurrences of template tid due at instant d
OccurrencesDue(store, tid, d) ==
    {id \in DOMAIN store :
        /\ store[id].kind = OCCURRENCE
        /\ store[id].template_id = tid
        /\ store[id].due_date = d}

\* C23: the dedup of generate is against the occurrences it read; when the
\* batch of a generate call is written and an occurrence of the template
\* for one of its due dates has been stored since, the write goes through
\* and the store holds two occurrences for that template and due date.
C23_OverlappingGenerateDuplicates ==
    [][\A r \in Requests :
          (/\ pc[r] = "createMany_insert"
           /\ pc'[r] = "createMany_readBack"
           /\ loc[r].op = "generate")
          => \A i \in DOMAIN loc[r].batch :
                /\ \A id \in loc[r].existing :
                      dateKey(entries[id].due_date) # dateKey(loc[r].batch[i].due_date)
                /\ OccurrencesDue(entries, loc[r].template_id, loc[r].batch[i].due_date) # {}
                   => Cardinality(OccurrencesDue(entries', loc[r].template_id,
                                                 loc[r].batch[i].due_date)) >= 2]_vars

\* two generate calls for one template that read the same existing
\* occurrences have both written, and one due date is stored twice
C23_Witness ==
    \E r1, r2 \in Requests :
        /\ r1 # r2
        /\ loc[r1].op = "generate" /\ loc[r2].op = "generate"
        /\ pc[r1] = "createMany_readBack" /\ pc[r2] = "createMany_readBack"
        /\ loc[r1].template_id = loc[r2].template_id
        /\ loc[r1].existing = loc[r2].existing
        /\ \E i \in DOMAIN loc[r1].batch :
              Cardinality(OccurrencesDue(entries, loc[r1].template_id,
                                         loc[r1].batch[i].due_date)) >= 2

\* C24: the two writes of settle are one unit: once a settle call has ended,
\* whether its entry update succeeded or failed, either the transaction it
\* created exists and the stored entry is PAID and refers to it, or the call
\* created no transaction and wrote nothing.
C24_SettleWritesAreOneUnit ==
    \A r \in Requests :
        (pc[r] = "done" /\ loc[r].op = "pay" /\ loc[r].transaction_id # NullId)
        => /\ loc[r].transaction_id \in DOMAIN transactions
           /\ entries[loc[r].entry.id].status = PAID
           /\ entries[loc[r].entry.id].transaction_id = loc[r].transaction_id

\* C25: while a settle call is returning success, whatever other settle and
\* skip calls do meanwhile, the stored entry is PAID and its transaction_id
\* is the id of the transaction this call returns.
C25_ReturnedTransactionIsReferenced ==
    \A r \in Requests :
        (pc[r] = "done" /\ loc[r].op = "pay" /\ loc[r].outcome = "ok")
        => /\ entries[loc[r].entry.id].status = PAID
           /\ entries[loc[r].entry.id].transaction_id = loc[r].transaction_id

\* C26: for a MONTHLY rule with interval 1 and every start date, days 29, 30
\* and 31 included, the next-date step applied k times from start gives the
\* date that adding k calendar months to start in one step gives.
C26_MonthlyStepsAddUp ==
    (probe.fn = "nextDate" /\ probe.frequency = MONTHLY /\ probe.interval = 1)
    => probe.currentDate = setMonth(probe.start, probe.k)

\* couple, payer, account, visibility and the two flags of transaction t are
\* those of template tpl
ShapeOfTemplate(t, tpl) ==
    /\ t.couple_id = tpl.couple_id
    /\ t.paid_by_id = tpl.paid_by_id
    /\ t.account_id = tpl.account_id
    /\ t.visibility = tpl.visibility
    /\ t.is_couple_expense = tpl.is_couple_expense
    /\ t.is_free_spending = tpl.is_free_spending

\* C27: the transaction created for an occurrence has the template's amount
\* and type; the one created for an installment has that installment's own
\* amount and type EXPENSE; in both, couple, payer, account, visibility and
\* the couple-expense and free-spending flags are the template's.
C27_TransactionCopiesTemplate ==
    \A id \in DOMAIN transactions :
        LET t == transactions[id]
            e == entries[t.entry_id]
            tpl == templates[e.template_id]
        IN  /\ ShapeOfTemplate(t, tpl)
            /\ e.kind = OCCURRENCE => t.amount = tpl.amount /\ t.type = tpl.type
            /\ e.kind = INSTALLMENT => t.amount = e.amount /\ t.type = "EXPENSE"

\* a settle call has created the transaction of an occurrence of an INCOME
\* template on a private account
C27_Witness ==
    \E r \in Requests :
        /\ pc[r] = "done"
        /\ loc[r].op = "pay"
        /\ loc[r].kind = OCCURRENCE
        /\ loc[r].outcome = "ok"
        /\ transactions[loc[r].transaction_id].type = "INCOME"
        /\ transactions[loc[r].transaction_id].visibility = "PRIVATE"
        /\ transactions[loc[r].transaction_id].is_free_spending

\* the outcomes of a settle call that failed before its first write
SettleRefusals ==
    {"not_found", "already_paid", "skipped", "overdue", "cannot_be_paid",
     "template_not_found"}

\* C28: a settle call that fails because the entry is not found, the entry
\* cannot be paid or the template is not found creates no transaction and
\* leaves every stored entry unchanged: neither the step that ends the call
\* nor its lookups before write anything.
C28_FailedSettleWritesNothing ==
    [][\A r \in Requests :
          /\ (/\ pc[r] # "done"
              /\ pc'[r] = "done"
              /\ loc'[r].op = "pay"
              /\ loc'[r].outcome \in SettleRefusals)
             => /\ transactions' = transactions
                /\ entries' = entries
                /\ loc'[r].transaction_id = NullId
          /\ (\/ pc[r] = "idle" /\ pc'[r] # "idle" /\ loc'[r].op = "pay"
              \/ pc[r] = "pay_findTemplate" /\ pc'[r] # "pay_findTemplate")
             => transactions' = transactions /\ entries' = entries]_vars

\* a settle call has failed because the template of the entry it read had
\* been deleted meanwhile
C28_Witness ==
    \E r \in Requests :
        /\ pc[r] = "done"
        /\ loc[r].op = "pay"
        /\ loc[r].outcome = "template_not_found"
        /\ DOMAIN templates = {}

\* C29: markAsPaid with an empty transaction id on a PENDING entry fails with
\* the transaction-id-required error and leaves the entry PENDING with
\* transaction_id null; on an entry that is not PENDING the not-pending error
\* is raised, whatever the transaction id, and the entry is left as it was.
C29_MarkAsPaidErrors ==
    probe.fn = "markedAsPaid" =>
        /\ (probe.entry.status = PENDING /\ probe.transaction_id = NullId)
           => /\ probe.outcome = "Transaction ID is required to mark as paid"
              /\ probe.after.status = PENDING
              /\ probe.after.transaction_id = NullId
        /\ probe.entry.status # PENDING
           => /\ probe.outcome = "Only pending entries can be marked as paid"
              /\ probe.after = probe.entry

\* markAsPaid was called with an empty id on a PAID entry
C29_Witness ==
    /\ probe.fn = "markedAsPaid"
    /\ probe.entry.status = PAID
    /\ probe.transaction_id = NullId
    /\ probe.outcome = "Only pending entries can be marked as paid"

\* C30: for an installment template, a deactivate call succeeds only on an
\* active template and an activate call only on an inactive one, so every
\* successful call flips is_active and the successful calls alternate.
C30_ActivateDeactivateAlternate ==
    [][\A r \in Requests :
          (/\ pc[r] = "idle"
           /\ pc'[r] = "done"
           /\ loc'[r].kind = INSTALLMENT
           /\ loc'[r].op \in {"activate", "deactivate"}
           /\ loc'[r].outcome = "ok")
          => \E tid \in DOMAIN templates :
                /\ templates[tid].kind = INSTALLMENT
                /\ templates[tid].is_active = (loc'[r].op = "deactivate")
                /\ templates'[tid].is_active = (loc'[r].op = "activate")]_vars

\* the identifiers of the rows of a batch
BatchIds(batch) == {batch[i].id : i \in DOMAIN batch}

\* C31: a generate call returns exactly the occurrences it stored in that
\* call, none that existed before it and none that another call created, and
\* it returns the empty list without error when it had nothing to emit.
C31_GenerateReturnsWhatItStored ==
    [][\A r \in Requests :
          /\ (/\ loc[r].op = "generate"
              /\ pc[r] = "createMany_readBack"
              /\ pc'[r] = "done"
              /\ loc'[r].outcome = "ok")
             => /\ loc'[r].returned = BatchIds(loc[r].batch)
                /\ loc'[r].returned \cap loc[r].existing = {}
          /\ (/\ loc[r].op = "generate"
              /\ pc[r] = "gen_findExisting"
              /\ pc'[r] = "done")
             => /\ loc'[r].outcome = "ok"
                /\ loc'[r].returned = {}]_vars

\* the installments in a store
Installments(store) == {id \in DOMAIN store : store[id].kind = INSTALLMENT}

C33_SkipWinsOverConcurrentSettle ==
    [][\A r \in Requests, id \in DOMAIN entries :
          (/\ loc[r].op = "pay"
           /\ pc[r] \in {"pay_findTemplate", "pay_createTransaction", "pay_markAsPaid"}
           /\ loc[r].entry.id = id
           /\ entries[id].status = SKIPPED
           /\ entries[id].transaction_id = NullId
           /\ pc'[r] # pc[r])
          => /\ entries'[id].status # PAID
             /\ {t \in DOMAIN transactions' : transactions'[t].entry_id = id}
                  = TransactionsFor(id)]_vars

\* C34: for an installment template input that passed validation (a positive
\* total in whole cents, a count in 2..120, a first due date not in the past),
\* the step that stores the template and generates its installments does not
\* end the call with an error, and every installment it generates has an
\* amount greater than zero.
C34_ValidInputGeneratesPositiveAmounts ==
    [][\A r \in Requests :
          (/\ pc[r] = "ci_createTemplate"
           /\ WithinLimits(loc[r].template)
           /\ setHours0(loc[r].template.first_due_date) >= setHours0(now)
           /\ pc'[r] # pc[r])
          => /\ pc'[r] = "createMany_insert"
             /\ Len(loc'[r].batch) = loc[r].template.total_installments
             /\ \A i \in DOMAIN loc'[r].batch : loc'[r].batch[i].amount > 0]_vars

\* entry id is the first of the schedule among the entries S of its template:
\* installment number 1, or the occurrence with the earliest due date
FirstOfSchedule(kind, id, S) ==
    IF kind = INSTALLMENT
    THEN entries[id].installment_number = 1
    ELSE \A x \in S : entries[id].due_date <= entries[x].due_date

\* C35: when a create call that was asked to pay the first entry marks an
\* entry PAID, that entry is the first of the schedule (installment number 1,
\* the occurrence with the earliest due date) in whatever order the store
\* returned the batch, and the step changes no other entry.
C35_FirstPaymentMarksFirstOfSchedule ==
    [][\A r \in Requests :
          (/\ pc[r] = "first_markAsPaid"
           /\ pc'[r] = "done"
           /\ loc'[r].outcome = "ok")
          => /\ FirstOfSchedule(loc[r].kind, loc[r].entry.id,
                                findByTemplateId(loc[r].kind, loc[r].template_id))
             /\ entries'[loc[r].entry.id].status = PAID
             /\ \A x \in DOMAIN entries \ {loc[r].entry.id} :
                   entries'[x] = entries[x]]_vars

\* C36: at every instant and for every store, the overdue query of a store
\* returns exactly the PENDING entries of its kind for which the entity's
\* isOverdue() is true at that instant.
C36_OverdueQueryAgreesWithEntity ==
    probe.fn = "findOverdue" =>
        /\ probe.installments
             = {id \in DOMAIN entries :
                  /\ entries[id].kind = INSTALLMENT
                  /\ isPending(entries[id])
                  /\ isOverdue(entries[id])}
        /\ probe.occurrences
             = {id \in DOMAIN entries :
                  /\ entries[id].kind = OCCURRENCE
                  /\ isPending(entries[id])
                  /\ isOverdue(entries[id])}

\* C37: the generation loop of a template with interval >= 1 terminates:
\* every pass through the body moves the cursor strictly forward, for every
\* frequency, start and horizon, and the loop eventually ends.
C37_GenerationLoopTerminates ==
    /\ [][\/ probe'.currentDate > probe.currentDate
          \/ /\ probe'.ended
             /\ probe'.currentDate = probe.currentDate
             /\ probe.currentDate > probe.endDate]_vars
    /\ <>(probe.fn = "loop" /\ probe.ended)

\* a monthly loop started on 31 January has run past its horizon and ended
C37_Witness ==
    /\ probe.fn = "loop"
    /\ probe.ended
    /\ probe.template.frequency = MONTHLY
    /\ probe.template.interval >= 1
    /\ probe.template.next_occurrence = DayNumber(EpochYear, 1, 31) * TicksPerDay
    /\ probe.currentDate > probe.endDate
    /\ probe.currentDate > setMonth(probe.template.next_occurrence, 1)

\* the operation of the call that takes the step, if request r takes it
StepOp(r) == IF loc'[r].op # "none" THEN loc'[r].op ELSE loc[r].op

\* entry id keeps everything but its status and transaction_id in the step
SameButStatus(id) ==
    /\ id \in DOMAIN entries'
    /\ entries'[id] = [entries[id] EXCEPT !.status = entries'[id].status,
                                          !.transaction_id = entries'[id].transaction_id]

\* C38: a step of a settle or a skip call changes nothing but the status and
\* the transaction_id of the entry the call names: that entry keeps its
\* due_date, amount, installment_number and template_id, every other entry
\* and every template (is_active and next_occurrence included) are
\* unchanged; a step of a generate call changes and removes no stored
\* occurrence and changes no template.
C38_SettleSkipGenerateFrame ==
    [][\A r \in Requests :
          pc'[r] # pc[r] =>
            /\ StepOp(r) \in {"pay", "skip"} =>
                 /\ templates' = templates
                 /\ DOMAIN entries' = DOMAIN entries
                 /\ \A id \in DOMAIN entries :
                       /\ SameButStatus(id)
                       /\ id \notin {loc[r].entry.id, loc'[r].entry.id}
                            => entries'[id] = entries[id]
            /\ StepOp(r) = "generate" =>
                 /\ templates' = templates
                 /\ \A id \in DOMAIN entries :
                       id \in DOMAIN entries' /\ entries'[id] = entries[id]]_vars

\* a settle and a skip have succeeded on two entries of one template: one is
\* PAID, the other SKIPPED without a transaction, and the template is stored
C38_Witness ==
    \E r1 \in Requests, r2 \in Requests :
        /\ pc[r1] = "done" /\ loc[r1].op = "pay" /\ loc[r1].outcome = "ok"
        /\ pc[r2] = "done" /\ loc[r2].op = "skip" /\ loc[r2].outcome = "ok"
        /\ loc[r1].entry.id # loc[r2].entry.id
        /\ entries[loc[r1].entry.id].template_id = entries[loc[r2].entry.id].template_id
        /\ entries[loc[r1].entry.id].status = PAID
        /\ entries[loc[r2].entry.id].status = SKIPPED
        /\ entries[loc[r2].entry.id].transaction_id = NullId
        /\ entries[loc[r1].entry.id].template_id \in DOMAIN templates

====
